---- MODULE Spec2Model ----
(***************************************************************************)
(* sshtui: the raw terminal panel (escape-sequence interpreter and screen  *)
(* buffer, src/src/terminal_panel.rs), the SSH client with its PTY reader  *)
(* thread and connection task (src/src/ssh.rs) and the part of the host    *)
(* application that drives them (src/src/main.rs).                         *)
(*                                                                         *)
(* Bytes and characters are integers (code points).  Coordinates are the   *)
(* 0-based u16 values of the source; the sequences that hold the grid are  *)
(* 1-based, so cell (x, y) of the source is lines[y + 1][x + 1].           *)
(***************************************************************************)
EXTENDS Integers, Sequences, FiniteSets, TLC

VARIABLES
    terminal_panel,      \* AppState.terminal_panel : RawTerminalPanel
    ssh_client,          \* AppState.ssh_client : SshClient
    ssh_event_receiver,  \* AppState.ssh_event_receiver : 0 = None, s = receiver of session s
    channel,             \* the events queued in the channel of ssh_event_receiver
    GLOBAL_PTY_WRITER,   \* the value guarded by the mutex: 0 = None, s = writer of session s
    writer_lock,         \* holder of the GLOBAL_PTY_WRITER mutex: "free" or "send_input"
    task,                \* per session: position of the spawned connection task
    reader,              \* per session: position of the PTY reader thread
    nsessions,           \* number of connect requests accepted so far
    main_pc,             \* position of the main loop: "loop" or "send_input"
    send_result,         \* result of the last send_input call: "none", "ok", "err"
    terminal_size,       \* AppState.terminal_size
    pty_reads,           \* history: per session, the chunks its reader has read
    pty_fed,             \* history: per session, the chunks passed to write_ssh_data
    chunk_input,         \* chunked feed: the whole byte sequence b
    chunk_split,         \* chunked feed: the split index k chosen by the first call
    ops,                 \* number of panel operations applied (bounded exploration)
    overflow_checks      \* build profile: TRUE = u16 overflow panics, FALSE = it wraps

vars == <<terminal_panel, ssh_client, ssh_event_receiver, channel,
          GLOBAL_PTY_WRITER, writer_lock, task, reader, nsessions, main_pc,
          send_result, terminal_size, pty_reads, pty_fed,
          chunk_input, chunk_split, ops, overflow_checks>>

(***************************************************************************)
(* u16 helpers                                                             *)
(***************************************************************************)
saturating_sub(a, b) == IF a > b THEN a - b ELSE 0

\* a + b on u16: -1 stands for the overflow panic of a checked build
u16_add(a, b) ==
    IF a + b > 65535
    THEN IF overflow_checks THEN -1 ELSE (a + b) % 65536
    ELSE a + b

\* a - b on u16: -1 stands for the overflow panic of a checked build
u16_sub(a, b) ==
    IF a < b
    THEN IF overflow_checks THEN -1 ELSE a - b + 65536
    ELSE a - b

Min(a, b) == IF a < b THEN a ELSE b

Rect(x, y, width, height) == [x |-> x, y |-> y, width |-> width, height |-> height]

(***************************************************************************)
(* Style and StyledChar                                                    *)
(***************************************************************************)
Style_default == [fg |-> "None", bg |-> "None", bold |-> FALSE, underlined |-> FALSE]

StyledChar_default == [ch |-> 32, style |-> Style_default]

DefaultLine(width) == [x \in 1..width |-> StyledChar_default]

(***************************************************************************)
(* vte::Parser: the state of the escape-sequence automaton                 *)
(***************************************************************************)
MAX_PARAMS == 32

MAX_INTERMEDIATES == 2

Parser_new ==
    [state |-> "Ground", params |-> <<>>, param |-> 0, intermediates |-> <<>>,
     ignoring |-> FALSE, osc_raw |-> <<>>, utf8_point |-> 0]

(***************************************************************************)
(* RawTerminalPanel                                                        *)
(***************************************************************************)
\* `failed` is not a field of the struct: it records that an operation on the
\* panel panicked (the thread running it has unwound) and why.
RawTerminalPanel_new(bounds) ==
    [bounds |-> bounds,
     cursor_x |-> 0,
     cursor_y |-> 0,
     lines |-> [y \in 1..bounds.height |-> DefaultLine(bounds.width)],
     parser |-> Parser_new,
     current_style |-> Style_default,
     is_active |-> FALSE,
     input_buffer |-> <<>>,
     failed |-> "none"]

panic(p, why) == [p EXCEPT !.failed = why]

\* resize_buffer that allocates the new grid without copying the old cells
resize_buffer_no_copy(p) ==
    [p EXCEPT !.lines = [y \in 1..p.bounds.height |-> DefaultLine(p.bounds.width)],
              !.cursor_x = IF p.cursor_x >= p.bounds.width
                           THEN saturating_sub(p.bounds.width, 1)
                           ELSE p.cursor_x,
              !.cursor_y = IF p.cursor_y >= p.bounds.height
                           THEN saturating_sub(p.bounds.height, 1)
                           ELSE p.cursor_y]

resize_buffer(p) ==
    LET new_height == p.bounds.height
        new_width == p.bounds.width
        new_lines == [y \in 1..new_height |-> [x \in 1..new_width |->
                        IF y <= Len(p.lines) /\ x <= Len(p.lines[y])
                        THEN p.lines[y][x]
                        ELSE StyledChar_default]]
    IN [p EXCEPT !.lines = new_lines,
                 !.cursor_x = IF p.cursor_x >= p.bounds.width
                              THEN saturating_sub(p.bounds.width, 1)
                              ELSE p.cursor_x,
                 !.cursor_y = IF p.cursor_y >= p.bounds.height
                              THEN saturating_sub(p.bounds.height, 1)
                              ELSE p.cursor_y]

set_bounds(p, bounds) ==
    IF p.bounds # bounds
    THEN resize_buffer([p EXCEPT !.bounds = bounds])
    ELSE p

set_active(p, active) == [p EXCEPT !.is_active = active]

get_size(p) ==
    [width |-> saturating_sub(p.bounds.width, 2),
     height |-> saturating_sub(p.bounds.height, 2)]

clear(p) ==
    [p EXCEPT !.lines = [y \in 1..Len(p.lines) |-> DefaultLine(Len(p.lines[y]))],
              !.cursor_x = 0,
              !.cursor_y = 0]

\* scroll_up that removes the first line and never appends the cleared one
scroll_up_no_last_line(p) ==
    IF Len(p.lines) = 0 THEN p ELSE [p EXCEPT !.lines = Tail(p.lines)]

scroll_up(p) ==
    LET n == Len(p.lines)
    IN IF n = 0
       THEN p
       ELSE [p EXCEPT !.lines = [i \in 1..n |->
                                   IF i < n THEN p.lines[i + 1]
                                   ELSE DefaultLine(Len(p.lines[n]))]]

\* a row advance that stops on the last row without scrolling the grid
next_row_no_scroll(p, inner_height) ==
    [p EXCEPT !.cursor_y = Min(p.cursor_y + 1, saturating_sub(inner_height, 1))]

\* cursor_y += 1; if cursor_y >= inner_height { scroll_up(); cursor_y = inner_height - 1 }
next_row(p, inner_height) ==
    LET q == [p EXCEPT !.cursor_y = p.cursor_y + 1]
    IN IF q.cursor_y >= inner_height
       THEN [scroll_up(q) EXCEPT !.cursor_y = saturating_sub(inner_height, 1)]
       ELSE q

\* char::is_control: the Cc category (C0, DEL, C1)
is_control(ch) == ch \in 0..31 \/ ch \in 127..159

write_char(p, ch) ==
    LET inner_width == saturating_sub(p.bounds.width, 2)
        inner_height == saturating_sub(p.bounds.height, 2)
    IN CASE ch = 10 -> next_row([p EXCEPT !.cursor_x = 0], inner_height)
         [] ch = 13 -> [p EXCEPT !.cursor_x = 0]
         [] ch = 9 ->
              LET next_tab == ((p.cursor_x \div 8) + 1) * 8
              IN [p EXCEPT !.cursor_x = Min(next_tab, saturating_sub(inner_width, 1))]
         [] ch \notin {10, 13, 9} /\ is_control(ch) -> p
         [] OTHER ->
              LET q == IF /\ p.cursor_y < Len(p.lines)
                          /\ p.cursor_x < inner_width
                          /\ p.cursor_x < Len(p.lines[p.cursor_y + 1])
                       THEN [p EXCEPT !.lines[p.cursor_y + 1][p.cursor_x + 1] =
                                        [ch |-> ch, style |-> p.current_style]]
                       ELSE p
                   r == [q EXCEPT !.cursor_x = q.cursor_x + 1]
              IN IF r.cursor_x >= inner_width
                 THEN next_row([r EXCEPT !.cursor_x = 0], inner_height)
                 ELSE r

\* a print that stores the character with the default style
print_unstyled(p, c) ==
    [write_char([p EXCEPT !.current_style = Style_default], c)
        EXCEPT !.current_style = p.current_style]

print(p, c) == write_char(p, c)

\* an execute that drops the line feed
execute_no_line_feed(p, byte) ==
    CASE byte = 13 -> write_char(p, 13)
      [] byte = 9 -> write_char(p, 9)
      [] byte = 8 -> IF p.cursor_x > 0 THEN [p EXCEPT !.cursor_x = p.cursor_x - 1] ELSE p
      [] OTHER -> p

\* an execute whose backspace also erases the cell it moves to
execute_backspace_erases(p, byte) ==
    CASE byte = 10 -> write_char(p, 10)
      [] byte = 13 -> write_char(p, 13)
      [] byte = 9 -> write_char(p, 9)
      [] byte = 8 ->
           IF p.cursor_x > 0
           THEN [p EXCEPT !.cursor_x = p.cursor_x - 1,
                          !.lines = [y \in 1..Len(p.lines) |->
                                       IF y = p.cursor_y + 1
                                       THEN [x \in 1..Len(p.lines[y]) |->
                                               IF x = p.cursor_x
                                               THEN StyledChar_default
                                               ELSE p.lines[y][x]]
                                       ELSE p.lines[y]]]
           ELSE p
      [] OTHER -> p

execute(p, byte) ==
    CASE byte = 10 -> write_char(p, 10)
      [] byte = 13 -> write_char(p, 13)
      [] byte = 9 -> write_char(p, 9)
      [] byte = 8 -> IF p.cursor_x > 0 THEN [p EXCEPT !.cursor_x = p.cursor_x - 1] ELSE p
      [] OTHER -> p

(***************************************************************************)
(* Erase helpers and SGR                                                   *)
(***************************************************************************)
\* an erase that stops one cell before the end of its range
erase_cells_exclusive(line, from, to) ==
    [x \in 1..Len(line) |-> IF x - 1 >= from /\ x - 1 < to
                            THEN StyledChar_default ELSE line[x]]

\* line[x] = default for x in from..to (0-based, inclusive)
erase_cells(line, from, to) ==
    [x \in 1..Len(line) |-> IF x - 1 >= from /\ x - 1 <= to
                            THEN StyledChar_default ELSE line[x]]

\* for x in cursor_x..line.len() { line[x] = default }
erase_line_from_cursor(p) ==
    IF p.cursor_y < Len(p.lines)
    THEN [p EXCEPT !.lines[p.cursor_y + 1] =
                     erase_cells(p.lines[p.cursor_y + 1], p.cursor_x,
                                 Len(p.lines[p.cursor_y + 1]) - 1)]
    ELSE p

\* for x in 0..=min(cursor_x, line.len().saturating_sub(1)) { line[x] = default }
\* indexes line[0] even when the line is empty
erase_line_to_cursor(p) ==
    IF p.cursor_y < Len(p.lines)
    THEN LET line == p.lines[p.cursor_y + 1]
             last == Min(p.cursor_x, saturating_sub(Len(line), 1))
         IN IF last >= Len(line)
            THEN panic(p, "index out of bounds")
            ELSE [p EXCEPT !.lines[p.cursor_y + 1] = erase_cells(line, 0, last)]
    ELSE p

erase_whole_line(p) ==
    IF p.cursor_y < Len(p.lines)
    THEN [p EXCEPT !.lines[p.cursor_y + 1] = DefaultLine(Len(p.lines[p.cursor_y + 1]))]
    ELSE p

clear_from_cursor(p) ==
    LET q == erase_line_from_cursor(p)
    IN [q EXCEPT !.lines = [y \in 1..Len(q.lines) |->
                              IF y - 1 >= q.cursor_y + 1
                              THEN DefaultLine(Len(q.lines[y]))
                              ELSE q.lines[y]]]

clear_to_cursor(p) ==
    LET q == [p EXCEPT !.lines = [y \in 1..Len(p.lines) |->
                                    IF y - 1 < p.cursor_y
                                    THEN DefaultLine(Len(p.lines[y]))
                                    ELSE p.lines[y]]]
    IN erase_line_to_cursor(q)

sgr_color(n) ==
    CASE n \in {30, 40} -> "Black"
      [] n \in {31, 41} -> "Red"
      [] n \in {32, 42} -> "Green"
      [] n \in {33, 43} -> "Yellow"
      [] n \in {34, 44} -> "Blue"
      [] n \in {35, 45} -> "Magenta"
      [] n \in {36, 46} -> "Cyan"
      [] n \in {37, 47, 97} -> "White"
      [] n = 90 -> "DarkGray"
      [] n = 91 -> "LightRed"
      [] n = 92 -> "LightGreen"
      [] n = 93 -> "LightYellow"
      [] n = 94 -> "LightBlue"
      [] n = 95 -> "LightMagenta"
      [] n = 96 -> "LightCyan"

\* an iteration that has no arm for parameter 0
sgr_param_no_reset(style, n) ==
    CASE n = 1 -> [style EXCEPT !.bold = TRUE]
      [] n = 4 -> [style EXCEPT !.underlined = TRUE]
      [] n \in 30..37 -> [style EXCEPT !.fg = sgr_color(n)]
      [] n \in 40..47 -> [style EXCEPT !.bg = sgr_color(n)]
      [] n \in 90..97 -> [style EXCEPT !.fg = sgr_color(n)]
      [] OTHER -> style

\* one iteration of the loop of handle_sgr
sgr_param(style, n) ==
    CASE n = 0 -> Style_default
      [] n = 1 -> [style EXCEPT !.bold = TRUE]
      [] n = 4 -> [style EXCEPT !.underlined = TRUE]
      [] n \in 30..37 -> [style EXCEPT !.fg = sgr_color(n)]
      [] n \in 40..47 -> [style EXCEPT !.bg = sgr_color(n)]
      [] n \in 90..97 -> [style EXCEPT !.fg = sgr_color(n)]
      [] OTHER -> style

RECURSIVE sgr_fold(_, _)
sgr_fold(style, params) ==
    IF params = <<>> THEN style
    ELSE sgr_fold(sgr_param(style, Head(params)), Tail(params))

handle_sgr(p, params) == [p EXCEPT !.current_style = sgr_fold(p.current_style, params)]

(***************************************************************************)
(* Perform::csi_dispatch                                                   *)
(***************************************************************************)
\* a lookup that takes the first parameter whatever the index
param_or_first(params, i, d) == IF Len(params) >= 1 THEN params[1] ELSE d

\* params.iter().nth(i - 1).unwrap_or(&[d])[0]
param_or(params, i, d) == IF Len(params) >= i THEN params[i] ELSE d

\* a dispatch that homes the cursor whatever the final byte
csi_dispatch_homes(p, params, c) == [p EXCEPT !.cursor_x = 0, !.cursor_y = 0]

csi_dispatch(p, params, c) ==
    CASE c = 65 -> \* 'A'
           [p EXCEPT !.cursor_y = saturating_sub(p.cursor_y, param_or(params, 1, 1))]
      [] c = 66 -> \* 'B'
           LET sum == u16_add(p.cursor_y, param_or(params, 1, 1))
           IN IF sum < 0 THEN panic(p, "attempt to add with overflow")
              ELSE [p EXCEPT !.cursor_y = Min(sum, saturating_sub(p.bounds.height, 3))]
      [] c = 67 -> \* 'C'
           LET sum == u16_add(p.cursor_x, param_or(params, 1, 1))
           IN IF sum < 0 THEN panic(p, "attempt to add with overflow")
              ELSE [p EXCEPT !.cursor_x = Min(sum, saturating_sub(p.bounds.width, 3))]
      [] c = 68 -> \* 'D'
           [p EXCEPT !.cursor_x = saturating_sub(p.cursor_x, param_or(params, 1, 1))]
      [] c \in {72, 102} -> \* 'H' | 'f'
           LET row == param_or(params, 1, 1)
               col == param_or(params, 2, 1)
           IN [p EXCEPT !.cursor_y = Min(saturating_sub(row, 1),
                                         saturating_sub(p.bounds.height, 3)),
                        !.cursor_x = Min(saturating_sub(col, 1),
                                         saturating_sub(p.bounds.width, 3))]
      [] c = 74 -> \* 'J'
           LET n == param_or(params, 1, 0)
           IN CASE n = 0 -> clear_from_cursor(p)
                [] n = 1 -> clear_to_cursor(p)
                [] n = 2 -> clear(p)
                [] OTHER -> p
      [] c = 75 -> \* 'K'
           LET n == param_or(params, 1, 0)
           IN CASE n = 0 -> erase_line_from_cursor(p)
                [] n = 1 -> erase_line_to_cursor(p)
                [] n = 2 -> erase_whole_line(p)
                [] OTHER -> p
      [] c = 109 -> \* 'm'
           handle_sgr(p, params)
      [] OTHER -> p

(***************************************************************************)
(* vte::Parser::advance, one byte at a time, with the panel as performer.  *)
(* The transition table is the one of the vte crate (Paul Williams' VT     *)
(* parser): a pair <<next state, action>>, where the next state "Anywhere" *)
(* keeps the current state.  Bytes 0x3a and 0x80..0xff other than the      *)
(* two-byte UTF-8 forms are outside the modelled input alphabet.           *)
(***************************************************************************)
C0_execute(byte) == byte \in 0..23 \/ byte = 25 \/ byte \in 28..31

state_change(state, byte) ==
    CASE byte \in {24, 26} -> <<"Ground", "Execute">>
      [] byte = 27 -> <<"Escape", "None">>
      [] OTHER ->
        CASE state = "Ground" ->
               CASE C0_execute(byte) -> <<"Anywhere", "Execute">>
                 [] byte \in 32..127 -> <<"Anywhere", "Print">>
                 [] byte \in 194..223 -> <<"Utf8", "BeginUtf8">>
                 [] OTHER -> <<"Anywhere", "None">>
          [] state = "Escape" ->
               CASE C0_execute(byte) -> <<"Anywhere", "Execute">>
                 [] byte = 127 -> <<"Anywhere", "Ignore">>
                 [] byte \in 32..47 -> <<"EscapeIntermediate", "Collect">>
                 [] byte = 80 -> <<"DcsEntry", "None">>
                 [] byte \in {88, 94, 95} -> <<"SosPmApcString", "None">>
                 [] byte = 91 -> <<"CsiEntry", "None">>
                 [] byte = 93 -> <<"OscString", "None">>
                 [] byte \in (48..126) \ {80, 88, 91, 93, 94, 95} -> <<"Ground", "EscDispatch">>
                 [] OTHER -> <<"Anywhere", "None">>
          [] state = "EscapeIntermediate" ->
               CASE C0_execute(byte) -> <<"Anywhere", "Execute">>
                 [] byte \in 32..47 -> <<"Anywhere", "Collect">>
                 [] byte = 127 -> <<"Anywhere", "Ignore">>
                 [] byte \in 48..126 -> <<"Ground", "EscDispatch">>
                 [] OTHER -> <<"Anywhere", "None">>
          [] state = "CsiEntry" ->
               CASE C0_execute(byte) -> <<"Anywhere", "Execute">>
                 [] byte = 127 -> <<"Anywhere", "Ignore">>
                 [] byte \in 32..47 -> <<"CsiIntermediate", "Collect">>
                 [] byte \in 48..57 \/ byte = 59 -> <<"CsiParam", "Param">>
                 [] byte \in 60..63 -> <<"CsiParam", "Collect">>
                 [] byte \in 64..126 -> <<"Ground", "CsiDispatch">>
                 [] OTHER -> <<"Anywhere", "None">>
          [] state = "CsiParam" ->
               CASE C0_execute(byte) -> <<"Anywhere", "Execute">>
                 [] byte \in 48..57 \/ byte = 59 -> <<"Anywhere", "Param">>
                 [] byte = 127 -> <<"Anywhere", "Ignore">>
                 [] byte \in 60..63 -> <<"CsiIgnore", "None">>
                 [] byte \in 32..47 -> <<"CsiIntermediate", "Collect">>
                 [] byte \in 64..126 -> <<"Ground", "CsiDispatch">>
                 [] OTHER -> <<"Anywhere", "None">>
          [] state = "CsiIntermediate" ->
               CASE C0_execute(byte) -> <<"Anywhere", "Execute">>
                 [] byte \in 32..47 -> <<"Anywhere", "Collect">>
                 [] byte = 127 -> <<"Anywhere", "Ignore">>
                 [] byte \in 48..63 -> <<"CsiIgnore", "None">>
                 [] byte \in 64..126 -> <<"Ground", "CsiDispatch">>
                 [] OTHER -> <<"Anywhere", "None">>
          [] state = "CsiIgnore" ->
               CASE C0_execute(byte) -> <<"Anywhere", "Execute">>
                 [] byte \in 32..63 \/ byte = 127 -> <<"Anywhere", "Ignore">>
                 [] byte \in 64..126 -> <<"Ground", "None">>
                 [] OTHER -> <<"Anywhere", "None">>
          [] state = "DcsEntry" ->
               CASE C0_execute(byte) \/ byte = 127 -> <<"Anywhere", "Ignore">>
                 [] byte \in 32..47 -> <<"DcsIntermediate", "Collect">>
                 [] byte \in 48..57 \/ byte = 59 -> <<"DcsParam", "Param">>
                 [] byte \in 60..63 -> <<"DcsParam", "Collect">>
                 [] byte \in 64..126 -> <<"DcsPassthrough", "None">>
                 [] OTHER -> <<"Anywhere", "None">>
          [] state = "DcsParam" ->
               CASE C0_execute(byte) \/ byte = 127 -> <<"Anywhere", "Ignore">>
                 [] byte \in 48..57 \/ byte = 59 -> <<"Anywhere", "Param">>
                 [] byte \in 60..63 -> <<"DcsIgnore", "None">>
                 [] byte \in 32..47 -> <<"DcsIntermediate", "Collect">>
                 [] byte \in 64..126 -> <<"DcsPassthrough", "None">>
                 [] OTHER -> <<"Anywhere", "None">>
          [] state = "DcsIntermediate" ->
               CASE C0_execute(byte) \/ byte = 127 -> <<"Anywhere", "Ignore">>
                 [] byte \in 32..47 -> <<"Anywhere", "Collect">>
                 [] byte \in 48..63 -> <<"DcsIgnore", "None">>
                 [] byte \in 64..126 -> <<"DcsPassthrough", "None">>
                 [] OTHER -> <<"Anywhere", "None">>
          [] state = "DcsPassthrough" ->
               CASE C0_execute(byte) \/ byte \in 32..126 -> <<"Anywhere", "Put">>
                 [] byte = 127 -> <<"Anywhere", "Ignore">>
                 [] OTHER -> <<"Anywhere", "None">>
          [] state = "DcsIgnore" ->
               CASE C0_execute(byte) \/ byte \in 32..127 -> <<"Anywhere", "Ignore">>
                 [] OTHER -> <<"Anywhere", "None">>
          [] state = "OscString" ->
               CASE byte = 7 -> <<"Ground", "None">>
                 [] C0_execute(byte) /\ byte # 7 -> <<"Anywhere", "Ignore">>
                 [] byte \in 32..127 -> <<"Anywhere", "OscPut">>
                 [] OTHER -> <<"Anywhere", "None">>
          [] state = "SosPmApcString" ->
               CASE C0_execute(byte) \/ byte \in 32..127 -> <<"Anywhere", "Ignore">>
                 [] OTHER -> <<"Anywhere", "None">>

\* One action of the parser applied to the pair (parser, panel).
perform_action(pp, action, byte) ==
    LET parser == pp.parser
        p == pp.panel
    IN CASE action = "Print" -> [pp EXCEPT !.panel = print(p, byte)]
         [] action = "Execute" -> [pp EXCEPT !.panel = execute(p, byte)]
         [] action = "Param" ->
              IF Len(parser.params) = MAX_PARAMS
              THEN [pp EXCEPT !.parser.ignoring = TRUE]
              ELSE IF byte = 59
                   THEN [pp EXCEPT !.parser.params = Append(parser.params, parser.param),
                                   !.parser.param = 0]
                   ELSE [pp EXCEPT !.parser.param =
                                     Min(Min(parser.param * 10, 65535) + (byte - 48), 65535)]
         [] action = "Collect" ->
              IF Len(parser.intermediates) = MAX_INTERMEDIATES
              THEN [pp EXCEPT !.parser.ignoring = TRUE]
              ELSE [pp EXCEPT !.parser.intermediates = Append(parser.intermediates, byte)]
         [] action = "Clear" ->
              [pp EXCEPT !.parser.params = <<>>, !.parser.param = 0,
                         !.parser.intermediates = <<>>, !.parser.ignoring = FALSE]
         [] action = "CsiDispatch" ->
              LET full == Len(parser.params) = MAX_PARAMS
                  params == IF full THEN parser.params
                            ELSE Append(parser.params, parser.param)
              IN [parser |-> [parser EXCEPT !.params = params,
                                            !.ignoring = IF full THEN TRUE ELSE @],
                  panel |-> csi_dispatch(p, params, byte)]
         [] action = "Hook" ->
              LET full == Len(parser.params) = MAX_PARAMS
              IN [pp EXCEPT !.parser.params = IF full THEN @ ELSE Append(@, parser.param),
                            !.parser.ignoring = IF full THEN TRUE ELSE @]
         [] action = "OscStart" -> [pp EXCEPT !.parser.osc_raw = <<>>]
         [] action = "OscPut" -> [pp EXCEPT !.parser.osc_raw = Append(@, byte)]
         [] action = "BeginUtf8" -> [pp EXCEPT !.parser.utf8_point = (byte % 32) * 64]
         \* EscDispatch, Put, Unhook, OscEnd: the performer's callbacks are empty
         [] OTHER -> pp

\* the action performed on leaving a state
exit_action(state) ==
    CASE state = "DcsPassthrough" -> "Unhook"
      [] state = "OscString" -> "OscEnd"
      [] OTHER -> "None"

\* the action performed on entering a state
entry_action(state) ==
    CASE state \in {"CsiEntry", "DcsEntry", "Escape"} -> "Clear"
      [] state = "DcsPassthrough" -> "Hook"
      [] state = "OscString" -> "OscStart"
      [] OTHER -> "None"

\* exit action of the old state, transition action, entry action of the new
\* state, then self.state = state; the action "None" performs nothing
\* perform_state_change that runs the actions but stays in the state it is in
perform_state_change_keeps_state(pp, state, action, byte) ==
    IF state = "Anywhere"
    THEN perform_action(pp, action, byte)
    ELSE perform_action(
             perform_action(
                 perform_action(pp, exit_action(pp.parser.state), byte),
                 action, byte),
             entry_action(state), byte)

perform_state_change(pp, state, action, byte) ==
    IF state = "Anywhere"
    THEN perform_action(pp, action, byte)
    ELSE [perform_action(
              perform_action(
                  perform_action(pp, exit_action(pp.parser.state), byte),
                  action, byte),
              entry_action(state), byte)
          EXCEPT !.parser.state = state]

\* In the Utf8 state every byte goes to the UTF-8 decoder: a continuation byte
\* completes the code point, any other byte is an invalid sequence (U+FFFD).
process_utf8(pp, byte) ==
    LET c == IF byte \in 128..191 THEN pp.parser.utf8_point + (byte % 64) ELSE 65533
    IN [parser |-> [pp.parser EXCEPT !.state = "Ground", !.utf8_point = 0],
        panel |-> print(pp.panel, c)]

advance(pp, byte) ==
    IF pp.parser.state = "Utf8"
    THEN process_utf8(pp, byte)
    ELSE LET change == state_change(pp.parser.state, byte)
         IN perform_state_change(pp, change[1], change[2], byte)

(***************************************************************************)
(* RawTerminalPanel::write_ssh_data                                        *)
(***************************************************************************)
\* One iteration of the loop: the parser is taken out of the panel (a fresh
\* parser is left in its place), advanced with the panel as performer and
\* stored back.  A panic ends the loop.
\* self.parser = temp_parser, unless the performer panicked
store_parser(r) ==
    IF r.panel.failed # "none"
    THEN r.panel
    ELSE [r.panel EXCEPT !.parser = r.parser]

process_byte(p, byte) ==
    IF p.failed # "none"
    THEN p
    ELSE store_parser(advance([parser |-> p.parser,
                               panel |-> [p EXCEPT !.parser = Parser_new]], byte))

RECURSIVE process_bytes(_, _)
process_bytes(p, buffer) ==
    IF buffer = <<>> \/ p.failed # "none" THEN p
    ELSE process_bytes(process_byte(p, Head(buffer)), Tail(buffer))

\* write_ssh_data that decodes every call with a parser of its own
write_ssh_data_fresh_parser(p, data) ==
    process_bytes([p EXCEPT !.input_buffer = <<>>, !.parser = Parser_new],
                  p.input_buffer \o data)

write_ssh_data(p, data) ==
    LET buffer_copy == p.input_buffer \o data
    IN process_bytes([p EXCEPT !.input_buffer = <<>>], buffer_copy)

(***************************************************************************)
(* Values shared by the specifications                                     *)
(***************************************************************************)
\* AppState::new: Rect { x: 40, y: 2, width: 80, height: 20 }
InitialBounds == Rect(40, 2, 80, 20)

MaxSessions == 2

Sessions == 1..MaxSessions

Hosts == {"web"}

\* the variables of the application outside the terminal panel, as
\* AppState::new and SshClient::new leave them
AppInit ==
    /\ ssh_client = [connected |-> FALSE, connecting |-> FALSE, host |-> "None"]
    /\ ssh_event_receiver = 0
    /\ channel = <<>>
    /\ GLOBAL_PTY_WRITER = 0
    /\ writer_lock = "free"
    /\ task = [s \in Sessions |-> [pc |-> "none", host |-> "None"]]
    /\ reader = [s \in Sessions |-> "none"]
    /\ nsessions = 0
    /\ main_pc = "loop"
    /\ send_result = "none"
    /\ terminal_size = <<120, 40>>
    /\ pty_reads = [s \in Sessions |-> <<>>]
    /\ pty_fed = [s \in Sessions |-> <<>>]

app_vars == <<ssh_client, ssh_event_receiver, channel, GLOBAL_PTY_WRITER,
              writer_lock, task, reader, nsessions, main_pc, send_result,
              terminal_size, pty_reads, pty_fed>>

(***************************************************************************)
(* SpecPanel: the operations of a RawTerminalPanel (new, set_bounds,       *)
(* write_ssh_data) applied in any order to a panel of any of the bounds    *)
(* below, at most MaxOps operations.                                       *)
(***************************************************************************)
MaxOps == 4

\* Rect values given to new and set_bounds: degenerate ones, two sizes with a
\* writable inner area, and one size at two positions
PanelBounds ==
    {Rect(0, 2, 0, 1), Rect(0, 2, 2, 2), Rect(0, 2, 1, 3),
     Rect(0, 2, 4, 3), Rect(1, 2, 4, 3), Rect(0, 2, 5, 4)}

\* byte sequences given to write_ssh_data
PanelInputs ==
    {<<97>>, <<98, 99>>,             \* "a", "bc"
     <<10>>, <<13>>, <<9>>, <<8>>,   \* LF, CR, TAB, BS
     <<27, 91, 49, 75>>,             \* ESC [ 1 K
     <<27, 91, 49, 74>>,             \* ESC [ 1 J
     <<27, 91, 74>>,                 \* ESC [ J
     <<27, 91, 50, 74>>,             \* ESC [ 2 J
     <<27, 91, 51, 49, 109>>,        \* ESC [ 3 1 m
     <<27, 91, 50, 59, 51, 72>>,     \* ESC [ 2 ; 3 H
     <<27, 91, 50, 67>>,             \* ESC [ 2 C
     <<27, 91, 66>>,                 \* ESC [ B
     <<27, 91>>, <<50>>}             \* an unfinished CSI, a digit

PanelInit ==
    /\ \E b \in PanelBounds : terminal_panel = RawTerminalPanel_new(b)
    /\ overflow_checks \in BOOLEAN
    /\ ops = 0
    /\ chunk_input = <<>>
    /\ chunk_split = 0
    /\ AppInit

PanelWrite ==
    /\ ops < MaxOps
    /\ terminal_panel.failed = "none"
    /\ \E data \in PanelInputs :
         terminal_panel' = write_ssh_data(terminal_panel, data)
    /\ ops' = ops + 1
    /\ UNCHANGED <<overflow_checks, chunk_input, chunk_split, app_vars>>

PanelSetBounds ==
    /\ ops < MaxOps
    /\ terminal_panel.failed = "none"
    /\ \E b \in PanelBounds : terminal_panel' = set_bounds(terminal_panel, b)
    /\ ops' = ops + 1
    /\ UNCHANGED <<overflow_checks, chunk_input, chunk_split, app_vars>>

PanelNext == PanelWrite \/ PanelSetBounds

SpecPanel == PanelInit /\ [][PanelNext]_vars

(***************************************************************************)
(* SpecChunk: a byte sequence b, the concatenation of at most MaxTokens    *)
(* of the sequences of ChunkTokens, is fed to a fresh panel in two calls   *)
(* of write_ssh_data, b[..k] and then b[k..], for any split index k.       *)
(***************************************************************************)
MaxTokens == 3

ChunkBounds == {Rect(0, 2, 5, 4)}

ChunkTokens ==
    {<<97>>, <<10>>, <<13>>,         \* "a", LF, CR
     <<27>>, <<91>>, <<49>>, <<59>>, \* ESC, "[", "1", ";"
     <<27, 91, 51, 49, 109>>,        \* ESC [ 3 1 m
     <<27, 91, 50, 59, 50, 72>>,     \* ESC [ 2 ; 2 H
     <<27, 91, 49, 74>>,             \* ESC [ 1 J
     <<27, 93, 48, 59, 97, 7>>,      \* ESC ] 0 ; a BEL
     <<195, 169>>,                   \* U+00E9 in UTF-8
     <<24>>}                         \* CAN

RECURSIVE TokenSeqs(_)
TokenSeqs(n) ==
    IF n = 0 THEN {<<>>}
    ELSE TokenSeqs(n - 1) \cup
         {b \o t : b \in TokenSeqs(n - 1), t \in ChunkTokens}

ChunkInit ==
    /\ \E b \in ChunkBounds : terminal_panel = RawTerminalPanel_new(b)
    /\ overflow_checks \in BOOLEAN
    /\ ops = 0
    /\ chunk_input \in TokenSeqs(MaxTokens)
    /\ chunk_split = 0
    /\ AppInit

\* the first call: write_ssh_data(b[..k])
ChunkFirst ==
    /\ ops = 0
    /\ \E k \in 0..Len(chunk_input) :
         /\ terminal_panel' = write_ssh_data(terminal_panel, SubSeq(chunk_input, 1, k))
         /\ chunk_split' = k
    /\ ops' = 1
    /\ UNCHANGED <<overflow_checks, chunk_input, app_vars>>

\* the second call: write_ssh_data(b[k..])
ChunkSecond ==
    /\ ops = 1
    /\ terminal_panel.failed = "none"
    /\ terminal_panel' = write_ssh_data(terminal_panel,
                            SubSeq(chunk_input, chunk_split + 1, Len(chunk_input)))
    /\ ops' = 2
    /\ UNCHANGED <<overflow_checks, chunk_input, chunk_split, app_vars>>

ChunkNext == ChunkFirst \/ ChunkSecond

SpecChunk == ChunkInit /\ [][ChunkNext]_vars

\* C1: feeding b[..k] and then b[k..] leaves the same panel (grid, cursor,
\* current style, parser state) as feeding b in one call, for every split k.
C1_ChunkingEquivalence ==
    ops = 2 =>
        terminal_panel =
            write_ssh_data(RawTerminalPanel_new(terminal_panel.bounds), chunk_input)

\* a sequence was split inside an escape sequence and the whole of it has
\* been fed: the second call found the parser outside Ground and finished a
\* sequence that changed the style or moved the cursor
C1_Witness ==
    /\ ops = 2
    /\ chunk_split > 0 /\ chunk_split < Len(chunk_input)
    /\ write_ssh_data(RawTerminalPanel_new(terminal_panel.bounds),
                      SubSeq(chunk_input, 1, chunk_split)).parser.state
         \in {"CsiEntry", "CsiParam"}
    /\ terminal_panel.parser.state = "Ground"
    /\ terminal_panel.current_style.fg = "Red" \/ terminal_panel.cursor_y = 1

(***************************************************************************)
(* SshClient (src/src/ssh.rs)                                              *)
(***************************************************************************)
\* SshClient::connect up to the spawn of the connection task
connect(client, host) ==
    IF client.connecting
    THEN [ok |-> FALSE, client |-> client]
    ELSE [ok |-> TRUE, client |-> [client EXCEPT !.connecting = TRUE, !.host = host]]

handle_event(client, event) ==
    CASE event.type = "Connected" ->
           [client EXCEPT !.connected = TRUE, !.connecting = FALSE, !.host = event.host]
      [] event.type = "Disconnected" ->
           [client EXCEPT !.connected = FALSE, !.connecting = FALSE, !.host = "None"]
      [] event.type = "Error" ->
           [client EXCEPT !.connected = FALSE, !.connecting = FALSE]
      [] event.type = "Data" -> client

\* a disconnect that leaves the host in place
disconnect_keeps_host(client) ==
    [client EXCEPT !.connected = FALSE, !.connecting = FALSE]

disconnect(client) ==
    [client EXCEPT !.connected = FALSE, !.connecting = FALSE, !.host = "None"]

\* UnboundedSender::send by a producer of session s: the event is queued when
\* the receiver of that session's channel still exists, and lost (the error
\* is discarded with `let _ =`) when it was dropped
send(s, event) ==
    IF ssh_event_receiver = s THEN Append(channel, event) ELSE channel

(***************************************************************************)
(* Spec: the host application.  The main loop (handle_ssh_events, key      *)
(* events, update_layout), the connection task and the reader thread of    *)
(* each session interleave freely.                                         *)
(***************************************************************************)
MaxReads == 2

\* the output of the remote side as the successive reads of a session return
\* it: "a", then ESC [ 2 J cut after the "[", then "b"; the chunks repeat
\* after the last one
PtyOutput == <<<<97>>, <<27, 91>>, <<50, 74>>, <<98>>>>

\* the chunk returned by read number n (n >= 1) of a session
pty_read(n) == PtyOutput[((n - 1) % Len(PtyOutput)) + 1]

\* terminal sizes reported by the frame and by resize events
TermSizes == {<<9, 9>>, <<12, 10>>}

\* the process is running: no panic has unwound the main loop
Alive == terminal_panel.failed = "none"

\* the Rect computed by update_layout; -1 in a field: the subtraction panicked
layout_bounds(size) ==
    LET sidebar_width == size[1] \div 3
        w == u16_sub(size[1], sidebar_width)
    IN Rect(sidebar_width, 2, IF w < 0 THEN -1 ELSE u16_sub(w, 1), u16_sub(size[2], 6))

\* AppState::new, then the first frame: ui::render calls update_layout with
\* the size of the frame before any SSH data exists.  No u16 operation
\* overflows for the TermSizes and PtyOutput of this specification (no
\* reachable state has a panic recorded under the checked build), so the
\* wrapping build takes exactly the same steps.
Init ==
    /\ overflow_checks = TRUE
    /\ \E size \in TermSizes :
         /\ terminal_size = size
         /\ terminal_panel = set_bounds(RawTerminalPanel_new(InitialBounds),
                                        layout_bounds(size))
    /\ ops = 0
    /\ chunk_input = <<>>
    /\ chunk_split = 0
    /\ ssh_client = [connected |-> FALSE, connecting |-> FALSE, host |-> "None"]
    /\ ssh_event_receiver = 0
    /\ channel = <<>>
    /\ GLOBAL_PTY_WRITER = 0
    /\ writer_lock = "free"
    /\ task = [s \in Sessions |-> [pc |-> "none", host |-> "None"]]
    /\ reader = [s \in Sessions |-> "none"]
    /\ nsessions = 0
    /\ main_pc = "loop"
    /\ send_result = "none"
    /\ pty_reads = [s \in Sessions |-> <<>>]
    /\ pty_fed = [s \in Sessions |-> <<>>]

panel_only_vars == <<ops, chunk_input, chunk_split, overflow_checks>>

\* a test that looks at the connecting flag only
connect_rejected_connecting_only(client) == client.connecting

\* the test at the top of connect_to_host
connect_rejected(client) == client.connecting \/ client.connected

\* AppState::connect_to_host(host); key_configured: the host or the
\* configuration names a key
ConnectToHost ==
    /\ main_pc = "loop" /\ Alive
    /\ \E host \in Hosts, key_configured \in BOOLEAN :
         IF connect_rejected(ssh_client)
         THEN UNCHANGED vars
         ELSE IF ~key_configured
         THEN UNCHANGED vars
         ELSE /\ nsessions < MaxSessions
              /\ LET s == nsessions + 1
                     r == connect(ssh_client, host)
                 IN /\ channel' = <<>>
                    /\ ssh_client' = r.client
                    /\ IF r.ok
                       THEN /\ ssh_event_receiver' = s
                            /\ nsessions' = s
                            /\ task' = [task EXCEPT ![s] = [pc |-> "spawned", host |-> host]]
                       ELSE /\ ssh_event_receiver' = -1
                            /\ UNCHANGED <<nsessions, task>>
              /\ UNCHANGED <<terminal_panel, GLOBAL_PTY_WRITER, writer_lock, reader,
                             main_pc, send_result, terminal_size, pty_reads, pty_fed,
                             panel_only_vars>>

\* a failing establish_connection_static whose error is not reported
TaskFail_silent(s) ==
    /\ Alive
    /\ task[s].pc = "spawned"
    /\ task' = [task EXCEPT ![s].pc = "done"]
    /\ UNCHANGED <<channel, terminal_panel, ssh_client, ssh_event_receiver, GLOBAL_PTY_WRITER,
                   writer_lock, reader, nsessions, main_pc, send_result, terminal_size, pty_reads, pty_fed, panel_only_vars>>

\* establish_connection_static fails (openpty, spawn_command, try_clone_reader
\* or take_writer returns an error): the task sends Error
TaskFail(s) ==
    /\ Alive
    /\ task[s].pc = "spawned"
    /\ task' = [task EXCEPT ![s].pc = "done"]
    /\ channel' = send(s, [type |-> "Error"])
    /\ UNCHANGED <<terminal_panel, ssh_client, ssh_event_receiver, GLOBAL_PTY_WRITER,
                   writer_lock, reader, nsessions, main_pc, send_result, terminal_size, pty_reads, pty_fed, panel_only_vars>>

\* establish_connection_static up to the sleep: the writer is stored in
\* GLOBAL_PTY_WRITER (under the lock) and the reader thread is started
TaskEstablish(s) ==
    /\ Alive
    /\ task[s].pc = "spawned"
    /\ writer_lock = "free"
    /\ GLOBAL_PTY_WRITER' = s
    /\ reader' = [reader EXCEPT ![s] = "reading"]
    /\ task' = [task EXCEPT ![s].pc = "sleeping"]
    /\ UNCHANGED <<terminal_panel, ssh_client, ssh_event_receiver, channel,
                   writer_lock, nsessions, main_pc, send_result, terminal_size, pty_reads, pty_fed, panel_only_vars>>

\* after the sleep the task sends Connected
TaskConnected(s) ==
    /\ Alive
    /\ task[s].pc = "sleeping"
    /\ task' = [task EXCEPT ![s].pc = "done"]
    /\ channel' = send(s, [type |-> "Connected", host |-> task[s].host])
    /\ UNCHANGED <<terminal_panel, ssh_client, ssh_event_receiver, GLOBAL_PTY_WRITER,
                   writer_lock, reader, nsessions, main_pc, send_result, terminal_size, pty_reads, pty_fed, panel_only_vars>>

\* number of chunks recorded in a history of reads
RECURSIVE TotalReads(_, _)
TotalReads(reads, n) ==
    IF n = 0 THEN 0 ELSE Len(reads[n]) + TotalReads(reads, n - 1)

\* reader thread: read returns Ok(n), n > 0, and the chunk is sent as a Data
\* event; pty_reads records the chunks sent while the receiver exists
ReaderData(s) ==
    /\ Alive
    /\ reader[s] = "reading"
    /\ TotalReads(pty_reads, MaxSessions) < MaxReads
    /\ \E data \in {pty_read(Len(pty_reads[s]) + 1)} :
         /\ channel' = send(s, [type |-> "Data", data |-> data])
         /\ pty_reads' = IF ssh_event_receiver = s
                         THEN [pty_reads EXCEPT ![s] = Append(@, data)]
                         ELSE pty_reads
    /\ UNCHANGED <<terminal_panel, ssh_client, ssh_event_receiver, GLOBAL_PTY_WRITER,
                   writer_lock, task, reader, nsessions, main_pc, send_result,
                   terminal_size, pty_fed, panel_only_vars>>

\* a reader that leaves the stored writer in place
writer_after_close_kept(writer) == writer

\* *global_writer = None in the reader thread
writer_after_close(writer) == 0

\* reader thread: read returns Ok(0) (eof = TRUE) or Err; the thread takes the
\* lock and empties GLOBAL_PTY_WRITER
ReaderClose(s) ==
    /\ Alive
    /\ reader[s] = "reading"
    /\ writer_lock = "free"
    /\ \E eof \in BOOLEAN :
         reader' = [reader EXCEPT ![s] = IF eof THEN "eof" ELSE "error"]
    /\ GLOBAL_PTY_WRITER' = writer_after_close(GLOBAL_PTY_WRITER)
    /\ UNCHANGED <<terminal_panel, ssh_client, ssh_event_receiver, channel,
                   writer_lock, task, nsessions, main_pc, send_result, terminal_size, pty_reads, pty_fed, panel_only_vars>>

\* reader thread: sends its terminal event and leaves the loop
\* a reader thread whose loop goes on after the terminal event
ReaderTerminal_keeps_reading(s) ==
    /\ Alive
    /\ reader[s] \in {"eof", "error"}
    /\ channel' = send(s, IF reader[s] = "eof" THEN [type |-> "Disconnected"]
                          ELSE [type |-> "Error"])
    /\ reader' = [reader EXCEPT ![s] = "reading"]
    /\ UNCHANGED <<terminal_panel, ssh_client, ssh_event_receiver, GLOBAL_PTY_WRITER,
                   writer_lock, task, nsessions, main_pc, send_result, terminal_size, pty_reads, pty_fed, panel_only_vars>>

ReaderTerminal(s) ==
    /\ Alive
    /\ reader[s] \in {"eof", "error"}
    /\ channel' = send(s, IF reader[s] = "eof" THEN [type |-> "Disconnected"]
                          ELSE [type |-> "Error"])
    /\ reader' = [reader EXCEPT ![s] = IF reader[s] = "eof" THEN "done_eof" ELSE "done_error"]
    /\ UNCHANGED <<terminal_panel, ssh_client, ssh_event_receiver, GLOBAL_PTY_WRITER,
                   writer_lock, task, nsessions, main_pc, send_result, terminal_size, pty_reads, pty_fed, panel_only_vars>>

\* the body of the loop over events_to_process in handle_ssh_events;
\* st = [panel, client, clear (should_clear_receiver), fed]
process_event(st, event) ==
    [CASE event.type = "Data" ->
            [st EXCEPT !.panel = write_ssh_data(st.panel, event.data),
                       !.fed = Append(st.fed, event.data)]
       [] event.type = "Connected" ->
            [st EXCEPT !.panel = set_active(st.panel, TRUE),
                       !.client.connected = TRUE,
                       !.client.connecting = FALSE]
       [] event.type = "Disconnected" ->
            [st EXCEPT !.panel = set_active(st.panel, FALSE),
                       !.clear = TRUE]
       [] event.type = "Error" ->
            [st EXCEPT !.panel = set_active(st.panel, FALSE),
                       !.clear = TRUE]
     EXCEPT !.client = handle_event(@, event)]

\* a loop that takes the collected events from the back of the vector
RECURSIVE process_events_newest_first(_, _)
process_events_newest_first(st, events) ==
    IF events = <<>> \/ st.panel.failed # "none"
    THEN st
    ELSE process_events_newest_first(process_event(st, events[Len(events)]),
                                     SubSeq(events, 1, Len(events) - 1))

RECURSIVE process_events(_, _)
process_events(st, events) ==
    IF events = <<>> \/ st.panel.failed # "none"
    THEN st
    ELSE process_events(process_event(st, Head(events)), Tail(events))

\* AppState::handle_ssh_events: drains the channel with try_recv, processes
\* the events in order, then drops the receiver if a terminal event was seen
HandleSshEvents ==
    /\ main_pc = "loop" /\ Alive
    /\ ssh_event_receiver # 0
    /\ \E s \in {ssh_event_receiver} :
       \E st \in {process_events([panel |-> terminal_panel, client |-> ssh_client,
                                  clear |-> FALSE,
                                  fed |-> IF s \in Sessions THEN pty_fed[s] ELSE <<>>],
                                 channel)} :
          /\ terminal_panel' = st.panel
          /\ ssh_client' = st.client
          /\ pty_fed' = IF s \in Sessions THEN [pty_fed EXCEPT ![s] = st.fed] ELSE pty_fed
          /\ channel' = <<>>
          /\ ssh_event_receiver' = IF st.clear THEN 0 ELSE s
    /\ UNCHANGED <<GLOBAL_PTY_WRITER, writer_lock, task, reader, nsessions, main_pc,
                   send_result, terminal_size, pty_reads, panel_only_vars>>

\* a send_input that hands the write to the worker whatever the status
SendInputCall_unguarded ==
    /\ main_pc = "loop" /\ Alive
    /\ main_pc' = "send_input"
    /\ UNCHANGED <<send_result, terminal_panel, ssh_client, ssh_event_receiver, channel,
                   GLOBAL_PTY_WRITER, writer_lock, task, reader, nsessions, terminal_size, pty_reads, pty_fed, panel_only_vars>>

\* SshClient::send_input, first part: the test of self.connected; when it
\* holds the blocking write is handed to a worker and the main loop awaits it
SendInputCall ==
    /\ main_pc = "loop" /\ Alive
    /\ IF ssh_client.connected
       THEN /\ main_pc' = "send_input"
            /\ UNCHANGED send_result
       ELSE /\ send_result' = "err"
            /\ UNCHANGED main_pc
    /\ UNCHANGED <<terminal_panel, ssh_client, ssh_event_receiver, channel,
                   GLOBAL_PTY_WRITER, writer_lock, task, reader, nsessions, terminal_size, pty_reads, pty_fed, panel_only_vars>>

\* the worker takes the lock and looks at the stored writer
SendInputLock ==
    /\ main_pc = "send_input" /\ Alive
    /\ writer_lock = "free"
    /\ IF GLOBAL_PTY_WRITER = 0
       THEN /\ send_result' = "err"
            /\ main_pc' = "loop"
            /\ UNCHANGED writer_lock
       ELSE /\ writer_lock' = "send_input"
            /\ main_pc' = "writing"
            /\ UNCHANGED send_result
    /\ UNCHANGED <<terminal_panel, ssh_client, ssh_event_receiver, channel,
                   GLOBAL_PTY_WRITER, task, reader, nsessions, terminal_size, pty_reads, pty_fed, panel_only_vars>>

\* write_all and flush on the stored writer succeed or fail; the lock is
\* released and send_input returns
SendInputWrite ==
    /\ main_pc = "writing" /\ Alive
    /\ \E ok \in BOOLEAN :
         send_result' = IF ok THEN "ok" ELSE "err"
    /\ writer_lock' = "free"
    /\ main_pc' = "loop"
    /\ UNCHANGED <<terminal_panel, ssh_client, ssh_event_receiver, channel,
                   GLOBAL_PTY_WRITER, task, reader, nsessions, terminal_size, pty_reads, pty_fed, panel_only_vars>>

\* Ctrl+Q while connected: SshClient::disconnect
Disconnect ==
    /\ main_pc = "loop" /\ Alive
    /\ ssh_client.connected
    /\ writer_lock = "free"
    /\ GLOBAL_PTY_WRITER' = 0
    /\ ssh_client' = disconnect(ssh_client)
    /\ UNCHANGED <<terminal_panel, ssh_event_receiver, channel, writer_lock, task,
                   reader, nsessions, main_pc, send_result, terminal_size,
                   pty_reads, pty_fed, panel_only_vars>>

\* AppState::update_layout(size)
update_layout(size) ==
    /\ terminal_size' = size
    /\ LET b == layout_bounds(size)
       IN terminal_panel' = IF b.width < 0 \/ b.height < 0
                            THEN panic(terminal_panel, "attempt to subtract with overflow")
                            ELSE set_bounds(terminal_panel, b)
    /\ UNCHANGED <<ssh_client, ssh_event_receiver, channel, GLOBAL_PTY_WRITER,
                   writer_lock, task, reader, nsessions, main_pc, send_result,
                   pty_reads, pty_fed, panel_only_vars>>

\* ui::render and Event::Resize: update_layout with the size of the terminal
UpdateLayout ==
    /\ main_pc = "loop" /\ Alive
    /\ \E size \in TermSizes : update_layout(size)

Next ==
    \/ ConnectToHost
    \/ HandleSshEvents
    \/ SendInputCall
    \/ SendInputLock
    \/ SendInputWrite
    \/ Disconnect
    \/ UpdateLayout
    \/ \E s \in Sessions : TaskFail(s)
    \/ \E s \in Sessions : TaskEstablish(s)
    \/ \E s \in Sessions : TaskConnected(s)
    \/ \E s \in Sessions : ReaderData(s)
    \/ \E s \in Sessions : ReaderClose(s)
    \/ \E s \in Sessions : ReaderTerminal(s)

Spec == Init /\ [][Next]_vars

(***************************************************************************)
(* Properties of the terminal panel (SpecPanel)                            *)
(***************************************************************************)
InnerWidth == terminal_panel.bounds.width - 2

InnerHeight == terminal_panel.bounds.height - 2

\* C7: for every bounds, degenerate ones included, and every byte sequence,
\* write_ssh_data completes without an out-of-range cell access or any other
\* failure.
C7_WriteNeverFails == terminal_panel.failed = "none"

\* C8: when the inner width W and inner height H are at least 1, the cursor
\* is inside the writable area: cursor_x <= W - 1 and cursor_y <= H - 1.
C8_CursorInsideInnerArea ==
    (InnerWidth >= 1 /\ InnerHeight >= 1 /\ terminal_panel.failed = "none") =>
        /\ terminal_panel.cursor_x >= 0 /\ terminal_panel.cursor_x <= InnerWidth - 1
        /\ terminal_panel.cursor_y >= 0 /\ terminal_panel.cursor_y <= InnerHeight - 1

\* C9: the grid is rectangular and matches the last bounds given: it has
\* bounds.height rows and every row has bounds.width cells.
C9_GridMatchesBounds ==
    /\ Len(terminal_panel.lines) = terminal_panel.bounds.height
    /\ \A y \in 1..Len(terminal_panel.lines) :
         Len(terminal_panel.lines[y]) = terminal_panel.bounds.width

\* text that reached the second row of a 5 x 4 panel was scrolled into the
\* first row: four operations, the last of them a line feed on the last
\* writable row
C9_Witness ==
    /\ ops = 4
    /\ terminal_panel.bounds = Rect(0, 2, 5, 4)
    /\ terminal_panel.lines[1][1].ch = 98 /\ terminal_panel.lines[1][2].ch = 99
    /\ terminal_panel.lines[1][3].ch = 32
    /\ \A x \in 1..5 : terminal_panel.lines[2][x].ch = 32
    /\ terminal_panel.cursor_x = 0 /\ terminal_panel.cursor_y = 1

\* C10: set_bounds from a grid of size (w, h) to (w', h') keeps every cell
\* (x, y) with x < min(w, w') and y < min(h, h') and makes every other cell of
\* the new grid the default cell; with the same width and height it changes no
\* cell and no cursor coordinate.
C10_ResizeKeepsOverlap ==
    [][PanelSetBounds =>
        LET old == terminal_panel
            new == terminal_panel'
        IN /\ \A y \in 1..new.bounds.height : \A x \in 1..new.bounds.width :
                new.lines[y][x] =
                    IF y <= old.bounds.height /\ x <= old.bounds.width
                    THEN old.lines[y][x]
                    ELSE StyledChar_default
           /\ (new.bounds.width = old.bounds.width
                 /\ new.bounds.height = old.bounds.height) =>
                /\ new.lines = old.lines
                /\ new.cursor_x = old.cursor_x
                /\ new.cursor_y = old.cursor_y]_vars

\* a panel moved and shrunk from width 5 to width 4 still holds the character
\* printed in column 2, which a panel of width 4 cannot print into
C10_Witness ==
    /\ terminal_panel.bounds = Rect(1, 2, 4, 3)
    /\ terminal_panel.lines[1][1].ch = 97
    /\ terminal_panel.lines[1][3].ch = 99
    /\ terminal_panel.lines[1][4].ch = 32

(***************************************************************************)
(* Properties of the sessions (Spec)                                       *)
(***************************************************************************)
\* C2: a connect request issued while the client is connecting or connected
\* is rejected: the request changes nothing, and while the client is
\* connecting or connected no step accepts a session, starts the connection
\* task or the reader thread of another session, stores the writer of another
\* session or replaces the event channel by a new one.
C2_ConnectRejectedWhileActive ==
    [][(ssh_client.connecting \/ ssh_client.connected) =>
        /\ ConnectToHost => UNCHANGED vars
        /\ nsessions' = nsessions
        /\ \A s \in Sessions : s # nsessions =>
             /\ task[s].pc = "none" => task'[s].pc = "none"
             /\ reader[s] = "none" => reader'[s] = "none"
        /\ GLOBAL_PTY_WRITER' \in {GLOBAL_PTY_WRITER, 0, nsessions}
        /\ ssh_event_receiver' \in {ssh_event_receiver, 0}]_vars

\* the client is connected to a live session, whose reader is reading and
\* whose writer is stored: a connect request can be issued here
C2_Witness ==
    /\ ssh_client.connected
    /\ main_pc = "loop"
    /\ nsessions = 1
    /\ reader[1] = "reading"
    /\ GLOBAL_PTY_WRITER = 1
    /\ ssh_event_receiver = 1

\* send_input returns in this step
SendInputReturns ==
    \/ SendInputCall /\ main_pc' = "loop"
    \/ SendInputLock /\ main_pc' = "loop"
    \/ SendInputWrite

RECURSIVE DataOf(_)
DataOf(events) ==
    IF events = <<>> THEN <<>>
    ELSE IF Head(events).type = "Data"
         THEN <<Head(events).data>> \o DataOf(Tail(events))
         ELSE DataOf(Tail(events))

\* C3: once the reader thread of a session has hit a read error and emptied
\* the write handle, it never reads again, no byte is written to the PTY of
\* that session, its channel gains no Data event, and every send_input that
\* returns while that session is the latest one returns an error, whether or
\* not the Error event has been processed.
C3_NoWriteAfterReadError ==
    [][\A s \in Sessions : reader[s] \in {"error", "done_error"} =>
        /\ reader'[s] \in {"error", "done_error"}
        /\ ~(SendInputWrite /\ GLOBAL_PTY_WRITER = s)
        /\ (ssh_event_receiver = s /\ ssh_event_receiver' = s) =>
             Len(DataOf(channel')) <= Len(DataOf(channel))
        /\ (s = nsessions /\ SendInputReturns) => send_result' = "err"]_vars

\* the reader of the connected session has failed, its Error event is still
\* in the channel, and a send_input issued after the failure has returned an
\* error
C3_Witness ==
    /\ nsessions = 1
    /\ reader[1] = "done_error"
    /\ ssh_client.connected
    /\ channel # <<>>
    /\ send_result = "err"
    /\ GLOBAL_PTY_WRITER = 0

\* the session whose status the client shows has ended
SessionClosed(s) ==
    \/ s < nsessions
    \/ reader[s] \in {"eof", "error", "done_eof", "done_error"}
    \/ ~ssh_client.connected /\ ~ssh_client.connecting

\* C4: the write handle of a session goes from present to empty only when
\* that session closes (EOF, read error or disconnect): a session whose
\* writer was stored and is no longer the stored one has closed.
C4_HandleEmptiedAtClose ==
    \A s \in Sessions :
        (reader[s] # "none" /\ GLOBAL_PTY_WRITER # s) => SessionClosed(s)

IsPrefix(a, b) == Len(a) <= Len(b) /\ a = SubSeq(b, 1, Len(a))

\* C5: the chunks passed to write_ssh_data for a session are the chunks its
\* reader read, in read order, each once: at any moment the chunks fed
\* followed by the chunks waiting in the channel are the chunks read, and when
\* the terminal event of the session is processed all of them have been fed.
C5_DataInReadOrder ==
    /\ [](\A s \in Sessions :
            /\ IsPrefix(pty_fed[s], pty_reads[s])
            /\ ssh_event_receiver = s =>
                 pty_fed[s] \o DataOf(channel) = pty_reads[s])
    /\ [][\A s \in Sessions :
            (ssh_event_receiver = s /\ ssh_event_receiver' = 0) =>
                pty_fed'[s] = pty_reads[s]]_vars

\* two different chunks were read and fed in one session, before its
\* terminal event was processed
C5_Witness ==
    /\ Len(pty_fed[1]) = 2
    /\ pty_fed[1][1] # pty_fed[1][2]
    /\ pty_fed[1] = pty_reads[1]
    /\ reader[1] = "done_eof"
    /\ ssh_event_receiver = 0

\* C6: Closed is terminal: once the terminal event of the session has been
\* applied (the receiver was dropped after it), no event of that session has
\* made the status Connecting or Connected again.
C6_ClosedIsTerminal ==
    (nsessions >= 1 /\ ssh_event_receiver = 0) =>
        ~ssh_client.connected /\ ~ssh_client.connecting

(***************************************************************************)
(* SpecFeed: a script, a sequence of chunks of bytes, is fed to a fresh     *)
(* panel one chunk per write_ssh_data call.  The scripts are built from     *)
(* text, CR, LF and CSI sequences with decimal parameters.                  *)
(***************************************************************************)
\* the decimal digits of n in ASCII
RECURSIVE Digits(_)
Digits(n) ==
    IF n < 10 THEN <<48 + n>> ELSE Digits(n \div 10) \o <<48 + (n % 10)>>

\* one parameter field of a CSI sequence; a negative value is an omitted field
Field(v) == IF v < 0 THEN <<>> ELSE Digits(v)

RECURSIVE JoinFields(_)
JoinFields(fs) ==
    IF fs = <<>> THEN <<>>
    ELSE IF Len(fs) = 1 THEN Field(fs[1])
    ELSE Field(Head(fs)) \o <<59>> \o JoinFields(Tail(fs))

\* ESC [ fields separated by ";" and the final byte
CSI(fs, final) == <<27, 91>> \o JoinFields(fs) \o <<final>>

\* the UTF-8 encoding of a code point below U+0800
utf8(c) == IF c < 128 THEN <<c>> ELSE <<192 + (c \div 64), 128 + (c % 64)>>

\* panels with a writable inner area: inner sizes 1x1, 2x2, 3x2, 3x3, 10x5
FeedBounds ==
    {Rect(0, 2, 3, 3), Rect(0, 2, 4, 4), Rect(0, 2, 5, 4), Rect(0, 2, 5, 5),
     Rect(0, 2, 12, 7)}

MaxLineLen == 2

\* line k of a text of lines of length len: a letter that only line k has
LineText(k, len) == [x \in 1..len |-> IF x = 1 THEN 96 + k ELSE 64 + k]

\* n lines of length len separated by CR LF, one chunk per line
LinesScript(n, len) ==
    [k \in 1..n |-> LineText(k, len) \o (IF k < n THEN <<13, 10>> ELSE <<>>)]

\* H + 1 lines, each shorter than the inner width, for a panel of bounds b
LineScripts(b) ==
    {LinesScript(b.height - 1, len) : len \in 0..Min(b.width - 3, MaxLineLen)}

Printables == {65, 66, 126, 233}

\* a, CR, LF, b
CrLfScripts ==
    {<<utf8(a), <<13>>, <<10>>, utf8(b)>> : a \in Printables, b \in Printables}

CupValues == {-1, 0, 1, 2, 5, 10, 65535}

CupParams ==
    {<<>>} \cup {<<r>> : r \in CupValues}
           \cup {<<r, c>> : r \in CupValues, c \in CupValues}

\* ESC [ r ; c H (or f), then "X"
CupScripts == {<<CSI(ps, f), <<88>>>> : ps \in CupParams, f \in {72, 102}}

SgrCodes == {31, 1, 4, 44}

\* ESC [ n m, "X", ESC [ 0 m or ESC [ m, "Y"
SgrScripts ==
    {<<CSI(<<n>>, 109), <<88>>, reset, <<89>>>> :
        n \in SgrCodes, reset \in {CSI(<<0>>, 109), CSI(<<>>, 109)}}

\* final bytes csi_dispatch has no arm for: z h l @ ~ G d n s u
UnknownFinals == {122, 104, 108, 64, 126, 71, 100, 110, 115, 117}

UnknownCsi ==
    {CSI(ps, f) : ps \in {<<>>, <<99, 5>>}, f \in UnknownFinals}
        \cup {<<27, 91, 63, 50, 53, 104>>}      \* ESC [ ? 2 5 h

\* "a", a CSI sequence with an unknown final byte, "b"
UnknownCsiScripts == {<<<<97>>, u, <<98>>>> : u \in UnknownCsi}

MoveCounts == {0, 1, 2, 65534, 65535}

MoveFinals == {65, 66, 67, 68}

\* ESC [ r ; c H, then a cursor movement with its parameter omitted or given
MoveScripts ==
    {<<CSI(<<r, c>>, 72), CSI(ps, f)>> :
        r \in 1..3, c \in 1..3,
        ps \in {<<>>} \cup {<<n>> : n \in MoveCounts}, f \in MoveFinals}

\* parameters of the erase sequences: omitted, the three modes, two others
EraseParams == {<<>>, <<0>>, <<1>>, <<2>>, <<3>>, <<5>>}

\* 'J' and 'K'
EraseFinals == {74, 75}

\* "ABCDEFGH", ESC [ r ; c H, then an erase sequence
EraseScripts ==
    {<<<<65, 66, 67, 68, 69, 70, 71, 72>>, CSI(<<r, c>>, 72), CSI(ps, f)>> :
        r \in 1..3, c \in 1..3, ps \in EraseParams, f \in EraseFinals}

\* SGR parameters: omitted, reset, bold, underline, colours, and three that
\* handle_sgr has no arm for
SgrParams == {-1, 0, 1, 4, 31, 44, 95, 7, 38, 5}

\* SGR parameters outside {0, 1, 4, 30..37, 40..47, 90..97}
SgrUnknown == {7, 38, 5}

\* parameter lists of one and of two parameters, 38;5;1, and a list of 33
\* parameters: 32 omitted ones and a colour
SgrLists ==
    {<<m>> : m \in SgrParams} \cup {<<m, n>> : m, n \in SgrParams}
        \cup {<<38, 5, 1>>, [i \in 1..33 |-> IF i = 33 THEN 31 ELSE -1]}

\* "X", then ESC [ p1 ; ... ; pk m
SgrListScripts == {<<<<88>>, CSI(ps, 109)>> : ps \in SgrLists}

\* ESC [ p1 m ESC [ p2 m ... ESC [ pk m
RECURSIVE SgrEach(_)
SgrEach(ps) ==
    IF ps = <<>> THEN <<>> ELSE CSI(<<Head(ps)>>, 109) \o SgrEach(Tail(ps))

\* Control strings and escape sequences other than CSI, byte by byte:
\* OSC ended by BEL and by ST (ESC \), each with a line feed in the payload,
\* a DCS string ended by ST, and ESC 7, ESC c, ESC M and ESC ( B.
StringSeqs ==
    {<<27, 93, 48, 59, 116, 10, 7>>,
     <<27, 93, 50, 59, 116, 10, 27, 92>>,
     <<27, 80, 49, 36, 113, 10, 109, 27, 92>>,
     <<27, 55>>, <<27, 99>>, <<27, 77>>, <<27, 40, 66>>}

\* a CSI sequence with two parameters and an intermediate byte
CsiSeqs == {<<27, 91, 49, 59, 51, 49, 109>>, <<27, 91, 49, 32, 113>>}

\* one call per byte
Bytes(s) == [i \in 1..Len(s) |-> <<s[i]>>]

\* "A", the sequence one byte per call, "X"
StringScripts == {<<<<65>>>> \o Bytes(s) \o <<<<88>>>> : s \in StringSeqs}

CsiByteScripts == {<<<<65>>>> \o Bytes(s) \o <<<<88>>>> : s \in CsiSeqs}

FeedScripts(b) ==
    LineScripts(b) \cup CrLfScripts \cup CupScripts \cup SgrScripts
        \cup UnknownCsiScripts \cup MoveScripts \cup EraseScripts
        \cup SgrListScripts \cup StringScripts \cup CsiByteScripts

FeedInit ==
    /\ \E b \in FeedBounds :
         /\ terminal_panel = RawTerminalPanel_new(b)
         /\ chunk_input \in FeedScripts(b)
    /\ overflow_checks \in BOOLEAN
    /\ ops = 0
    /\ chunk_split = 0
    /\ AppInit

\* the chunk the next call is given
FeedChunk == chunk_input[ops + 1]

\* write_ssh_data(chunk) for the next chunk of the script
Feed ==
    /\ ops < Len(chunk_input)
    /\ terminal_panel.failed = "none"
    /\ terminal_panel' = write_ssh_data(terminal_panel, FeedChunk)
    /\ ops' = ops + 1
    /\ UNCHANGED <<overflow_checks, chunk_input, chunk_split, app_vars>>

FeedNext == Feed

SpecFeed == FeedInit /\ [][FeedNext]_vars

\* the whole script has been fed without a failure
FeedDone == ops = Len(chunk_input) /\ terminal_panel.failed = "none"

\* the character in cell (row, col) of the grid, 0-based
CellCh(row, col) == terminal_panel.lines[row + 1][col + 1].ch

(***************************************************************************)
(* Properties of scripts fed to a fresh panel (SpecFeed)                    *)
(***************************************************************************)
\* C11: after H + 1 lines of text (each shorter than the inner width,
\* separated by CR LF) on a panel of inner height H, row i holds line i + 2
\* for every i < H - 1, no cell holds a character of the first line, and the
\* cursor row is H - 1.
C11_ScrollDiscardsFirstLine ==
    (chunk_input \in LineScripts(terminal_panel.bounds) /\ FeedDone) =>
        LET H == InnerHeight
            len == Len(chunk_input[H + 1])
        IN /\ \A i \in 0..(H - 2) : \A x \in 0..(terminal_panel.bounds.width - 1) :
                CellCh(i, x) = IF x < len THEN LineText(i + 2, len)[x + 1] ELSE 32
           /\ \A y \in 0..(terminal_panel.bounds.height - 1) :
              \A x \in 0..(terminal_panel.bounds.width - 1) :
                \A k \in 1..len : CellCh(y, x) # LineText(1, len)[k]
           /\ terminal_panel.cursor_y = H - 1

\* six lines of two characters were fed to the panel of inner height 5: the
\* second line is in row 0 and the sixth line in the cursor row
C11_Witness ==
    /\ chunk_input \in LineScripts(terminal_panel.bounds)
    /\ FeedDone
    /\ InnerHeight = 5
    /\ CellCh(0, 0) = 98 /\ CellCh(0, 1) = 66
    /\ CellCh(4, 0) = 102
    /\ terminal_panel.cursor_y = 4

\* C12: for printable characters a and b, feeding a, CR, LF, b to a fresh
\* panel with at least 2 visible rows and 2 visible columns yields cell
\* (row 0, col 0) = a, cell (row 1, col 0) = b and the cursor at row 1,
\* column 1.
C12_CrLfPlacesSecondLine ==
    \A a \in Printables, b \in Printables :
        (/\ chunk_input = <<utf8(a), <<13>>, <<10>>, utf8(b)>>
         /\ FeedDone
         /\ InnerWidth >= 2 /\ InnerHeight >= 2) =>
            /\ CellCh(0, 0) = a
            /\ CellCh(1, 0) = b
            /\ terminal_panel.cursor_y = 1
            /\ terminal_panel.cursor_x = 1

\* U+00E9, CR, LF, "~" were fed to the panel of 2 x 2 visible cells
C12_Witness ==
    /\ chunk_input = <<utf8(233), <<13>>, <<10>>, utf8(126)>>
    /\ FeedDone
    /\ InnerWidth = 2 /\ InnerHeight = 2
    /\ CellCh(0, 0) = 233 /\ CellCh(1, 0) = 126
    /\ terminal_panel.cursor_x = 1 /\ terminal_panel.cursor_y = 1

(***************************************************************************)
(* Properties of single calls on any reachable panel (SpecPanel)            *)
(***************************************************************************)
\* this step is the call write_ssh_data(data)
PanelFed(data) ==
    PanelWrite /\ terminal_panel' = write_ssh_data(terminal_panel, data)

\* the cursor is inside a writable area of at least one cell
CursorInside ==
    /\ InnerWidth >= 1 /\ InnerHeight >= 1
    /\ terminal_panel.cursor_x < InnerWidth
    /\ terminal_panel.cursor_y < InnerHeight

\* C13: a line feed moves the cursor to the next row (it stays on the last
\* row, which scrolls) and leaves the cursor column unchanged; a carriage
\* return sets the column to 0 and leaves the row and every cell unchanged.
C13_LineFeedKeepsColumn ==
    [][CursorInside =>
        /\ PanelFed(<<10>>) =>
             /\ terminal_panel'.cursor_x = terminal_panel.cursor_x
             /\ terminal_panel'.cursor_y =
                  Min(terminal_panel.cursor_y + 1, InnerHeight - 1)
        /\ PanelFed(<<13>>) =>
             /\ terminal_panel'.cursor_x = 0
             /\ terminal_panel'.cursor_y = terminal_panel.cursor_y
             /\ terminal_panel'.lines = terminal_panel.lines]_vars

Max(a, b) == IF a > b THEN a ELSE b

\* the value of parameter i of a CSI sequence built from the fields fs, an
\* omitted or missing field counting as d
FieldOr(fs, i, d) == IF Len(fs) >= i /\ fs[i] >= 0 THEN fs[i] ELSE d

\* C14 as stated: ESC [ r ; c H (and f) sets the cursor to row
\* min(max(r,1)-1, H-1) and column min(max(c,1)-1, W-1), and a character
\* printed next is stored in exactly that cell, for every r and c.
C14_PrintedCellAlways ==
    \A ps \in CupParams, f \in {72, 102} :
        (chunk_input = <<CSI(ps, f), <<88>>>> /\ terminal_panel.failed = "none") =>
            LET row == Min(Max(FieldOr(ps, 1, 1), 1) - 1, InnerHeight - 1)
                col == Min(Max(FieldOr(ps, 2, 1), 1) - 1, InnerWidth - 1)
            IN /\ ops = 1 =>
                    /\ terminal_panel.cursor_y = row
                    /\ terminal_panel.cursor_x = col
               /\ ops = 2 =>
                    \A y \in 0..(terminal_panel.bounds.height - 1) :
                    \A x \in 0..(terminal_panel.bounds.width - 1) :
                        CellCh(y, x) = IF y = row /\ x = col THEN 88 ELSE 32

\* C14, amended: the cursor is set as stated for every r and c; the character
\* printed next is the only character of the grid and is in that cell, unless
\* the cell is the last column of the last row: there the wrap that follows
\* the print scrolls the grid, and the character is one row higher (or gone
\* when the panel has one row).
C14_CursorPositionClamped ==
    \A ps \in CupParams, f \in {72, 102} :
        (chunk_input = <<CSI(ps, f), <<88>>>> /\ terminal_panel.failed = "none") =>
            LET row == Min(Max(FieldOr(ps, 1, 1), 1) - 1, InnerHeight - 1)
                col == Min(Max(FieldOr(ps, 2, 1), 1) - 1, InnerWidth - 1)
                corner == row = InnerHeight - 1 /\ col = InnerWidth - 1
                at == IF corner THEN row - 1 ELSE row
            IN /\ ops = 1 =>
                    /\ terminal_panel.cursor_y = row
                    /\ terminal_panel.cursor_x = col
               /\ ops = 2 =>
                    \A y \in 0..(terminal_panel.bounds.height - 1) :
                    \A x \in 0..(terminal_panel.bounds.width - 1) :
                        CellCh(y, x) = IF y = at /\ x = col THEN 88 ELSE 32

\* ESC [ 5 ; 10 H and "X" were fed to the panel of 10 x 5 visible cells, whose
\* last cell is row 4, column 9: the print scrolled the grid and the "X" is
\* at row 3, column 9, the cursor at the start of the last row
C14_Witness ==
    /\ chunk_input = <<CSI(<<5, 10>>, 72), <<88>>>>
    /\ FeedDone
    /\ InnerWidth = 10 /\ InnerHeight = 5
    /\ CellCh(3, 9) = 88 /\ CellCh(4, 9) = 32
    /\ terminal_panel.cursor_x = 0 /\ terminal_panel.cursor_y = 4

\* the style ESC [ n m gives from the default style, for the codes of SgrCodes
ExpectedStyle(n) ==
    CASE n = 31 -> [fg |-> "Red", bg |-> "None", bold |-> FALSE, underlined |-> FALSE]
      [] n = 44 -> [fg |-> "None", bg |-> "Blue", bold |-> FALSE, underlined |-> FALSE]
      [] n = 1 -> [fg |-> "None", bg |-> "None", bold |-> TRUE, underlined |-> FALSE]
      [] n = 4 -> [fg |-> "None", bg |-> "None", bold |-> FALSE, underlined |-> TRUE]

\* C15: a cell holds the style that was current when its character was
\* printed: after ESC [ n m the printed "X" has that style, after a following
\* ESC [ 0 m or ESC [ m the printed "Y" has the default style, and the "X"
\* keeps the style it was printed with.
C15_CellKeepsPrintStyle ==
    \A n \in SgrCodes, reset \in {CSI(<<0>>, 109), CSI(<<>>, 109)} :
        (/\ chunk_input = <<CSI(<<n>>, 109), <<88>>, reset, <<89>>>>
         /\ terminal_panel.failed = "none"
         /\ InnerWidth >= 2) =>
            /\ ops = 1 => terminal_panel.current_style = ExpectedStyle(n)
            /\ ops >= 2 =>
                 terminal_panel.lines[1][1] = [ch |-> 88, style |-> ExpectedStyle(n)]
            /\ ops = 3 => terminal_panel.current_style = Style_default
            /\ ops = 4 =>
                 terminal_panel.lines[1][2] = [ch |-> 89, style |-> Style_default]

\* ESC [ 31 m, "X", ESC [ m, "Y" were fed: a red "X" next to a default "Y"
C15_Witness ==
    /\ chunk_input = <<CSI(<<31>>, 109), <<88>>, CSI(<<>>, 109), <<89>>>>
    /\ FeedDone
    /\ terminal_panel.lines[1][1].ch = 88
    /\ terminal_panel.lines[1][1].style.fg = "Red"
    /\ terminal_panel.lines[1][2] = [ch |-> 89, style |-> Style_default]

\* C16: a CSI sequence whose final byte is none of A B C D H f J K m changes
\* no cell, neither cursor coordinate and not the current style, and leaves
\* the parser in Ground; the next printable byte is stored at the cursor.
C16_UnknownCsiIgnored ==
    /\ [][(ops < Len(chunk_input) /\ FeedChunk \in UnknownCsi) =>
            /\ terminal_panel'.failed = "none"
            /\ terminal_panel'.lines = terminal_panel.lines
            /\ terminal_panel'.cursor_x = terminal_panel.cursor_x
            /\ terminal_panel'.cursor_y = terminal_panel.cursor_y
            /\ terminal_panel'.current_style = terminal_panel.current_style
            /\ terminal_panel'.parser.state = "Ground"]_vars
    /\ []((chunk_input \in UnknownCsiScripts /\ FeedDone /\ InnerWidth >= 2) =>
            /\ CellCh(0, 0) = 97
            /\ CellCh(0, 1) = 98)

\* "a", ESC [ 99 ; 5 z, "b" were fed: the parser has seen both parameters and
\* the "b" is next to the "a"
C16_Witness ==
    /\ chunk_input = <<<<97>>, CSI(<<99, 5>>, 122), <<98>>>>
    /\ FeedDone
    /\ terminal_panel.parser.params = <<99, 5>>
    /\ CellCh(0, 0) = 97 /\ CellCh(0, 1) = 98

\* C17: every erase-display sequence ESC [ n J with n in {0, 1, 2} leaves
\* both cursor coordinates unchanged, and ESC [ 2 J clears all cells.
C17_EraseDisplayKeepsCursor ==
    [][\A data \in {<<27, 91, 74>>, <<27, 91, 49, 74>>, <<27, 91, 50, 74>>} :
        (PanelFed(data) /\ terminal_panel'.failed = "none") =>
            /\ terminal_panel'.cursor_x = terminal_panel.cursor_x
            /\ terminal_panel'.cursor_y = terminal_panel.cursor_y
            /\ data = <<27, 91, 50, 74>> =>
                 \A y \in 1..Len(terminal_panel'.lines) :
                 \A x \in 1..Len(terminal_panel'.lines[y]) :
                    terminal_panel'.lines[y][x] = StyledChar_default]_vars

\* C18: a cursor movement with its parameter omitted (ESC [ A, ESC [ B,
\* ESC [ C, ESC [ D) moves the cursor by exactly one cell in its direction,
\* unless the cursor is at the corresponding edge, where it stays.
C18_OmittedParameterMovesOne ==
    [][\A f \in MoveFinals :
        (/\ ops < Len(chunk_input)
         /\ FeedChunk = CSI(<<>>, f)
         /\ terminal_panel'.failed = "none") =>
            /\ terminal_panel'.cursor_y =
                 CASE f = 65 -> Max(terminal_panel.cursor_y - 1, 0)
                   [] f = 66 -> Min(terminal_panel.cursor_y + 1, InnerHeight - 1)
                   [] OTHER -> terminal_panel.cursor_y
            /\ terminal_panel'.cursor_x =
                 CASE f = 67 -> Min(terminal_panel.cursor_x + 1, InnerWidth - 1)
                   [] f = 68 -> Max(terminal_panel.cursor_x - 1, 0)
                   [] OTHER -> terminal_panel.cursor_x]_vars

\* C19: for every parameter n of the 16-bit range and every cursor position,
\* ESC [ n B yields cursor_y = min(cursor_y + n, last writable row) and
\* ESC [ n C yields cursor_x = min(cursor_x + n, last writable column), the
\* sum never overflowing 16 bits: the write does not fail and the cursor
\* does not wrap around to a small value.
C19_ForwardDownNeverOverflow ==
    [][\A n \in MoveCounts : \A f \in {66, 67} :
        (ops < Len(chunk_input) /\ FeedChunk = CSI(<<n>>, f) /\ Feed) =>
            /\ terminal_panel'.failed = "none"
            /\ terminal_panel'.cursor_y =
                 IF f = 66
                 THEN Min(terminal_panel.cursor_y + n, InnerHeight - 1)
                 ELSE terminal_panel.cursor_y
            /\ terminal_panel'.cursor_x =
                 IF f = 67
                 THEN Min(terminal_panel.cursor_x + n, InnerWidth - 1)
                 ELSE terminal_panel.cursor_x]_vars

\* C20: send_input called while the status is not Connected (Idle,
\* Connecting or Closed) returns an error and goes nowhere near the write:
\* no byte is written to any PTY, and the status flags, the host, the write
\* handle, its lock and the screen buffer are unchanged, also when a write
\* handle is already stored because a connection attempt is under way.
C20_SendInputNotConnected ==
    [][(SendInputCall /\ ~ssh_client.connected) =>
        /\ send_result' = "err"
        /\ main_pc' = "loop"
        /\ UNCHANGED <<ssh_client, GLOBAL_PTY_WRITER, writer_lock,
                       terminal_panel, channel, pty_reads, pty_fed>>]_vars

\* a connection attempt is under way, its write handle is already stored, and
\* a send_input issued in this state has returned an error (the call leaves
\* the state as it is, so the state is also the one the call was made in)
C20_Witness ==
    /\ ssh_client.connecting /\ ~ssh_client.connected
    /\ nsessions = 1
    /\ GLOBAL_PTY_WRITER = 1
    /\ writer_lock = "free"
    /\ reader[1] = "reading"
    /\ main_pc = "loop" /\ Alive
    /\ send_result = "err"

\* the connection task of session s has ended in the Err arm: no PTY writer
\* was stored and no reader thread was started for it
SpawnFailed(s) == task[s].pc = "done" /\ reader[s] = "none"

\* C21: when PTY allocation or the launch of the command fails during a
\* connect attempt, no session is created: no reader thread runs for it, the
\* write handle stays empty, an Error event is emitted, and once that event
\* is processed the status is neither Connecting nor Connected, so that a
\* later connect request is accepted.
C21_SpawnErrorCreatesNoSession ==
    /\ [][\A s \in Sessions :
            /\ TaskFail(s) =>
                 /\ reader'[s] = "none"
                 /\ GLOBAL_PTY_WRITER = 0 /\ GLOBAL_PTY_WRITER' = 0
                 /\ ssh_event_receiver = s
                 /\ channel' = Append(channel, [type |-> "Error"])
            /\ (SpawnFailed(s) /\ ssh_event_receiver = s /\ HandleSshEvents) =>
                 /\ ~ssh_client'.connecting /\ ~ssh_client'.connected
                 /\ ~connect_rejected(ssh_client')
                 /\ ssh_event_receiver' = 0]_vars
    /\ [](\A s \in Sessions : SpawnFailed(s) =>
            /\ GLOBAL_PTY_WRITER # s
            /\ s = nsessions => GLOBAL_PTY_WRITER = 0
            /\ ssh_event_receiver = s => channel = <<[type |-> "Error"]>>
            /\ (s = nsessions /\ ssh_event_receiver # s) =>
                 ~ssh_client.connecting /\ ~ssh_client.connected)

\* the first connect attempt failed to spawn, its Error event was processed,
\* and a second connect request has been accepted
C21_Witness ==
    /\ SpawnFailed(1)
    /\ nsessions = 2
    /\ task[2].pc = "spawned"
    /\ ssh_client.connecting
    /\ GLOBAL_PTY_WRITER = 0

\* RawTerminalPanel::render: the rows and columns of the buffer that lie
\* inside block.inner(bounds), each cell with its character and style (the
\* spans of a row, concatenated)
panel_render(p) ==
    LET inner == get_size(p)
    IN [y \in 1..Min(Len(p.lines), inner.height) |->
           SubSeq(p.lines[y], 1, Min(Len(p.lines[y]), inner.width))]

\* ui::render, the right-hand area: the terminal panel while the client is
\* connected or connecting, the dashboard otherwise
render(client, p) ==
    IF client.connected \/ client.connecting
    THEN [widget |-> "terminal_panel", rows |-> panel_render(p)]
    ELSE [widget |-> "dashboard", rows |-> <<>>]

\* the events that end a session
TerminalEvents == {[type |-> "Disconnected"], [type |-> "Error"]}

\* C22: processing a Disconnected or Error event changes no grid cell, no
\* cursor coordinate and not the current style of the terminal panel, and
\* the panel content written before the failure is still what the host
\* displays after the session is Closed.
C22_ContentVisibleAfterClose ==
    /\ \A event \in TerminalEvents :
         \E st \in {process_event([panel |-> terminal_panel, client |-> ssh_client,
                                   clear |-> FALSE, fed |-> <<>>], event)} :
            /\ st.panel.lines = terminal_panel.lines
            /\ st.panel.cursor_x = terminal_panel.cursor_x
            /\ st.panel.cursor_y = terminal_panel.cursor_y
            /\ st.panel.current_style = terminal_panel.current_style
    /\ (/\ nsessions >= 1
        /\ pty_fed[nsessions] # <<>>
        /\ ssh_event_receiver = 0
        /\ ~ssh_client.connected /\ ~ssh_client.connecting) =>
            render(ssh_client, terminal_panel) =
                [widget |-> "terminal_panel", rows |-> panel_render(terminal_panel)]

\* C23: an OS write failure inside send_input on a Connected session is fatal
\* to that session: it moves the connection status to Closed (not connected,
\* not connecting) and empties the write handle, and the failure is reported
\* as an error value to the caller.
C23_WriteFailureClosesSession ==
    [][(SendInputWrite /\ ssh_client.connected /\ send_result' = "err") =>
        /\ ~ssh_client'.connected /\ ~ssh_client'.connecting
        /\ GLOBAL_PTY_WRITER' = 0]_vars

(***************************************************************************)
(* SpecLive: Spec with the scheduling the runtime provides.  Every thread  *)
(* that can take a step of its own eventually takes it: the main loop      *)
(* polls the channel on every iteration and awaits the worker of           *)
(* send_input, the connection task runs to its end, and a reader thread    *)
(* whose read has returned sends its event.  Nothing is assumed about what *)
(* comes from outside the program: whether and when a read of the PTY      *)
(* returns (ReaderData, ReaderClose) is up to the remote process, and key  *)
(* presses and resizes (ConnectToHost, SendInputCall, Disconnect,          *)
(* UpdateLayout) are up to the user.                                       *)
(***************************************************************************)
\* ENABLED <<HandleSshEvents>>_vars, spelled out: the main loop is at the
\* call, a receiver exists and try_recv has an event to return (a call on an
\* empty channel changes nothing)
HandleSshEventsEnabled ==
    main_pc = "loop" /\ Alive /\ ssh_event_receiver # 0 /\ channel # <<>>

\* weak fairness of each step; for HandleSshEvents it is written with
\* HandleSshEventsEnabled in the place of ENABLED
Fairness ==
    /\ []<>(~HandleSshEventsEnabled) \/ []<><<HandleSshEvents>>_vars
    /\ WF_vars(SendInputLock)
    /\ WF_vars(SendInputWrite)
    /\ \A s \in Sessions : WF_vars(TaskFail(s) \/ TaskEstablish(s))
    /\ \A s \in Sessions : WF_vars(TaskConnected(s))
    /\ \A s \in Sessions : WF_vars(ReaderTerminal(s))

SpecLive == Init /\ [][Next]_vars /\ Fairness

\* disconnect() was called on the Connected session s and no connect request
\* has been accepted since: the status is Idle while the receiver of the
\* session is still in place (a Disconnected or Error event would have
\* dropped it)
Disconnected(s) ==
    /\ nsessions = s
    /\ ssh_event_receiver = s
    /\ ~ssh_client.connected /\ ~ssh_client.connecting

\* C24: after disconnect() is called on a Connected session, the reader
\* thread of that session eventually leaves its read loop, without any
\* dependence on the remote process producing output or exiting on its own.
C24_DisconnectUnblocksReader ==
    \A s \in Sessions :
        (Disconnected(s) /\ reader[s] = "reading") ~> (reader[s] # "reading")

\* SshClient::disconnect as a whole, on the client and the value guarded by
\* GLOBAL_PTY_WRITER: the writer is emptied, the fields are cleared, Ok(())
disconnect_call(client, writer) ==
    [client |-> disconnect(client), writer |-> 0, result |-> "ok"]

\* C25: disconnect() is idempotent: in every client state, calling it twice
\* leaves the same status flags (not connected, not connecting), host (none)
\* and write handle (empty) as calling it once, and each call returns
\* success; the call made by the main loop is that operation.
C25_DisconnectIdempotent ==
    /\ [](\E once \in {disconnect_call(ssh_client, GLOBAL_PTY_WRITER)} :
          \E twice \in {disconnect_call(once.client, once.writer)} :
             /\ once.result = "ok" /\ twice.result = "ok"
             /\ once.client = [connected |-> FALSE, connecting |-> FALSE, host |-> "None"]
             /\ once.writer = 0
             /\ twice.client = once.client
             /\ twice.writer = once.writer)
    /\ [][Disconnect =>
            /\ ssh_client' = disconnect_call(ssh_client, GLOBAL_PTY_WRITER).client
            /\ GLOBAL_PTY_WRITER' = disconnect_call(ssh_client, GLOBAL_PTY_WRITER).writer]_vars

\* disconnect() has been called on the connected first session while its
\* writer was stored and its reader was reading
C25_Witness ==
    /\ Disconnected(1)
    /\ ssh_client.host = "None"
    /\ GLOBAL_PTY_WRITER = 0
    /\ reader[1] = "reading"
    /\ task[1].pc = "done"

\* C26: no step of the main loop waits on PTY I/O: handle_ssh_events returns
\* without waiting when the event channel is empty, and a keystroke
\* forwarded with send_input does not hold up the main loop until the PTY
\* write (or the acquisition of the write-handle lock) completes: the main
\* loop is never suspended inside send_input.
C26_MainLoopNeverWaits ==
    /\ (main_pc = "loop" /\ Alive /\ ssh_event_receiver # 0 /\ channel = <<>>) =>
          ENABLED HandleSshEvents
    /\ main_pc = "loop"

\* SshClient::resize_pty(width, height) on a PTY of size pty: the body is
\* Ok(()), the PTY keeps its size
resize_pty(pty, width, height) == [pty |-> pty, result |-> "ok"]

\* the PTY side of AppState::update_layout, p being the panel after
\* set_bounds: when connected the new size is read and an empty task is
\* spawned; resize_pty is not called and the PTY keeps its size
update_layout_pty(client, p, pty) ==
    IF client.connected
    THEN LET size == get_size(p) IN pty
    ELSE pty

\* C27: the PTY is created with the panel's inner size, and after every
\* layout change applied while the session is Connected the new inner size
\* is propagated to the PTY, so that the PTY dimensions equal the panel's
\* get_size() whenever the session is Connected and no resize is pending;
\* the resize operation itself never fails.  Stated for one layout change:
\* a PTY that has the panel's size before it has the panel's size after it.
C27_PtySizeFollowsLayout ==
    [][(UpdateLayout /\ ssh_client.connected /\ terminal_panel'.failed = "none") =>
        \A pty \in {get_size(terminal_panel)} :
            /\ update_layout_pty(ssh_client', terminal_panel', pty) = get_size(terminal_panel')
            /\ resize_pty(pty, get_size(terminal_panel').width,
                          get_size(terminal_panel').height).result = "ok"]_vars

\* the panel after printing ch with the cursor at (x, y) in the writable
\* area of W x H cells, as the put operation is described: the cell under
\* the cursor takes ch and the current style; the cursor advances by one
\* column, or from the last column to column 0 of the next row, the grid
\* moving up by one row when there is no next row
PutAt(p, ch) ==
    LET W == p.bounds.width - 2
        H == p.bounds.height - 2
        n == Len(p.lines)
        stored == [p.lines EXCEPT ![p.cursor_y + 1][p.cursor_x + 1] =
                                     [ch |-> ch, style |-> p.current_style]]
    IN IF p.cursor_x < W - 1
       THEN [p EXCEPT !.lines = stored, !.cursor_x = p.cursor_x + 1]
       ELSE IF p.cursor_y + 1 < H
       THEN [p EXCEPT !.lines = stored, !.cursor_x = 0, !.cursor_y = p.cursor_y + 1]
       ELSE [p EXCEPT !.lines = [i \in 1..n |-> IF i < n THEN stored[i + 1]
                                                ELSE DefaultLine(p.bounds.width)],
                      !.cursor_x = 0,
                      !.cursor_y = H - 1]

\* C28: printing a character with the cursor at column x < W-1 of a writable
\* row stores it with the current style in cell (cursor_y, x) and only
\* advances cursor_x by one; printing at the last writable column W-1 stores
\* it there and moves the cursor to column 0 of the next row, and when that
\* row would be past the last writable row the grid is scrolled up by one
\* and the cursor row stays H-1; no other cell changes except through that
\* scroll.  Checked for "a" and for the two characters of "bc".
C28_PrintStoresAndAdvances ==
    [][(/\ CursorInside
        /\ terminal_panel.parser.state = "Ground"
        /\ terminal_panel.parser.utf8_point = 0) =>
        /\ PanelFed(<<97>>) => terminal_panel' = PutAt(terminal_panel, 97)
        /\ PanelFed(<<98, 99>>) =>
             terminal_panel' = PutAt(PutAt(terminal_panel, 98), 99)]_vars

\* on the panel of 2 x 1 writable cells "b" was printed in the last column,
\* which wrapped and scrolled it away, and "c" was printed after it
C28_Witness ==
    /\ terminal_panel.bounds = Rect(0, 2, 4, 3)
    /\ ops = 2
    /\ CellCh(0, 0) = 99 /\ CellCh(0, 1) = 32
    /\ terminal_panel.cursor_x = 1 /\ terminal_panel.cursor_y = 0

\* C29: after every scroll (caused by a line feed or a wrap on or past the
\* last writable row), in every reachable state including states reached
\* after set_bounds shrank the panel, the bottom visible row (row H-1 of the
\* inner area) consists only of default cells, and, for a line feed, each
\* visible row i < H-1 holds what visible row i+1 held before the scroll: no
\* content that was outside the visible area reappears.
C29_ScrollBlanksBottomRow ==
    [][(/\ InnerWidth >= 1 /\ InnerHeight >= 1
        /\ terminal_panel.cursor_y >= InnerHeight - 1
        /\ terminal_panel.parser.state = "Ground"
        /\ terminal_panel.parser.utf8_point = 0
        /\ terminal_panel'.failed = "none") =>
        /\ PanelFed(<<10>>) =>
             /\ \A x \in 1..InnerWidth :
                  terminal_panel'.lines[InnerHeight][x] = StyledChar_default
             /\ \A i \in 1..(InnerHeight - 1) : \A x \in 1..InnerWidth :
                  terminal_panel'.lines[i][x] = terminal_panel.lines[i + 1][x]
        /\ (PanelFed(<<97>>) /\ terminal_panel.cursor_x >= InnerWidth - 1) =>
             \A x \in 1..InnerWidth :
                terminal_panel'.lines[InnerHeight][x] = StyledChar_default]_vars

\* cell (x, y) belongs to the region of the erase sequence with final byte f
\* and mode n when the cursor is at (cx, cy): 'K' works on the cursor row,
\* 'J' also on the rows below (mode 0) or above (mode 1) it
InEraseRegion(f, n, cx, cy, x, y) ==
    LET in_row == CASE n = 0 -> y = cy /\ x >= cx
                    [] n = 1 -> y = cy /\ x <= cx
                    [] n = 2 -> y = cy
                    [] OTHER -> FALSE
    IN IF f = 75
       THEN in_row
       ELSE CASE n = 0 -> in_row \/ y > cy
              [] n = 1 -> in_row \/ y < cy
              [] n = 2 -> TRUE
              [] OTHER -> FALSE

\* C30: an erase sequence resets exactly the cells of its region to the
\* default cell and changes no other cell: ESC [ 0 K (and ESC [ K) the
\* cursor row from the cursor column to the end, ESC [ 1 K the cursor row
\* through the cursor column, ESC [ 2 K the whole cursor row; ESC [ 0 J (and
\* ESC [ J) the same as ESC [ 0 K plus all rows below, ESC [ 1 J all rows
\* above plus the cursor row through the cursor column, ESC [ 2 J every
\* cell; a parameter other than 0, 1, 2 changes nothing.
C30_EraseExactRegion ==
    [][\A ps \in EraseParams : \A f \in EraseFinals :
        (/\ chunk_input \in EraseScripts
         /\ ops = 2
         /\ FeedChunk = CSI(ps, f)
         /\ Feed
         /\ terminal_panel'.failed = "none") =>
            /\ Len(terminal_panel'.lines) = Len(terminal_panel.lines)
            /\ \A y \in 1..Len(terminal_panel.lines) :
                 /\ Len(terminal_panel'.lines[y]) = Len(terminal_panel.lines[y])
                 /\ \A x \in 1..Len(terminal_panel.lines[y]) :
                      terminal_panel'.lines[y][x] =
                          IF InEraseRegion(f, FieldOr(ps, 1, 0),
                                           terminal_panel.cursor_x,
                                           terminal_panel.cursor_y, x - 1, y - 1)
                          THEN StyledChar_default
                          ELSE terminal_panel.lines[y][x]]_vars

\* on the panel of 3 x 3 visible cells holding ABC / DEF / GH, ESC [ 1 J with
\* the cursor on the middle cell has erased the first row and D and E
C30_Witness ==
    /\ terminal_panel.bounds = Rect(0, 2, 5, 5)
    /\ chunk_input = <<<<65, 66, 67, 68, 69, 70, 71, 72>>, CSI(<<2, 2>>, 72), CSI(<<1>>, 74)>>
    /\ FeedDone
    /\ CellCh(0, 0) = 32 /\ CellCh(0, 2) = 32
    /\ CellCh(1, 0) = 32 /\ CellCh(1, 1) = 32 /\ CellCh(1, 2) = 70
    /\ CellCh(2, 0) = 71 /\ CellCh(2, 1) = 72

\* C31: an SGR sequence with several parameters ESC [ p1 ; ... ; pk m changes
\* the current style exactly as ESC [ p1 m, ..., ESC [ pk m fed one after
\* the other in that order; a parameter outside {0, 1, 4, 30..37, 40..47,
\* 90..97} leaves the current style unchanged; no SGR sequence changes a
\* grid cell or the cursor.
C31_SgrListIsSequence ==
    [][\A ps \in SgrLists :
        (ops = 1 /\ chunk_input = <<<<88>>, CSI(ps, 109)>> /\ Feed) =>
            /\ terminal_panel'.failed = "none"
            /\ terminal_panel'.current_style =
                 write_ssh_data(terminal_panel, SgrEach(ps)).current_style
            /\ (Len(ps) = 1 /\ ps[1] \in SgrUnknown) =>
                 terminal_panel'.current_style = terminal_panel.current_style
            /\ (Len(ps) = 2 /\ ps[2] \in SgrUnknown) =>
                 terminal_panel'.current_style =
                     write_ssh_data(terminal_panel, CSI(<<ps[1]>>, 109)).current_style
            /\ terminal_panel'.lines = terminal_panel.lines
            /\ terminal_panel'.cursor_x = terminal_panel.cursor_x
            /\ terminal_panel'.cursor_y = terminal_panel.cursor_y]_vars

\* C32: a tab byte with the cursor at column x sets the column to
\* min((x div 8 + 1) * 8, W-1), W being the inner width, and changes neither
\* the cursor row nor any cell; the resulting column is never smaller than x.
C32_TabNextStop ==
    [][(InnerWidth >= 1 /\ PanelFed(<<9>>)) =>
        /\ terminal_panel'.failed = "none"
        /\ terminal_panel'.cursor_x =
             Min(((terminal_panel.cursor_x \div 8) + 1) * 8, InnerWidth - 1)
        /\ terminal_panel'.cursor_x >= terminal_panel.cursor_x
        /\ terminal_panel'.cursor_y = terminal_panel.cursor_y
        /\ terminal_panel'.lines = terminal_panel.lines]_vars

\* C33: a backspace byte decreases the cursor column by one when it is
\* greater than 0 and does nothing at column 0; it changes no grid cell, not
\* the cursor row and not the current style.  The inputs of SpecPanel leave
\* the parser in Ground or inside a CSI sequence, where the byte is executed.
C33_BackspaceMovesLeft ==
    [][PanelFed(<<8>>) =>
        /\ terminal_panel'.failed = "none"
        /\ terminal_panel'.cursor_x =
             IF terminal_panel.cursor_x > 0 THEN terminal_panel.cursor_x - 1 ELSE 0
        /\ terminal_panel'.cursor_y = terminal_panel.cursor_y
        /\ terminal_panel'.lines = terminal_panel.lines
        /\ terminal_panel'.current_style = terminal_panel.current_style]_vars

\* "bc" was printed on the first row and a backspace moved the cursor back
\* onto the "c", which is still there
C33_Witness ==
    /\ terminal_panel.bounds = Rect(0, 2, 5, 4)
    /\ ops = 2
    /\ CellCh(0, 0) = 98 /\ CellCh(0, 1) = 99
    /\ terminal_panel.cursor_x = 1 /\ terminal_panel.cursor_y = 0

CsiStates == {"CsiEntry", "CsiParam", "CsiIntermediate", "CsiIgnore"}

DcsStates == {"DcsEntry", "DcsParam", "DcsIntermediate", "DcsPassthrough",
              "DcsIgnore"}

\* the parser state after the panel was given the bytes of data
StateAfter(data) == write_ssh_data(terminal_panel, data).parser.state

\* C34: from every parser state the parser can return to Ground: inside a
\* CSI sequence a final byte ends it, inside an OSC string BEL and ST end
\* it, inside a DCS string ST ends it and inside an ESC sequence a final
\* byte ends it.  No byte of an OSC or DCS string, of its terminator or of an
\* ESC sequence other than CSI changes a grid cell, the cursor or the style,
\* and the first printable byte after the sequence is stored at the cursor
\* as a printed character is.
C34_ParserReturnsToGround ==
    /\ [](terminal_panel.failed = "none" =>
           LET st == terminal_panel.parser.state
           IN /\ st \in CsiStates => StateAfter(<<109>>) = "Ground"
              /\ st = "OscString" =>
                   StateAfter(<<7>>) = "Ground" /\ StateAfter(<<27, 92>>) = "Ground"
              /\ st \in DcsStates => StateAfter(<<27, 92>>) = "Ground"
              /\ st \in {"Escape", "EscapeIntermediate"} =>
                   StateAfter(<<99>>) = "Ground"
              /\ \E t \in {<<>>, <<128>>, <<109>>, <<7>>, <<27, 92>>} :
                   StateAfter(t) = "Ground")
    /\ [][(chunk_input \in StringScripts /\ Feed /\ ops >= 1) =>
           IF ops + 1 < Len(chunk_input)
           THEN /\ terminal_panel'.failed = "none"
                /\ terminal_panel'.lines = terminal_panel.lines
                /\ terminal_panel'.cursor_x = terminal_panel.cursor_x
                /\ terminal_panel'.cursor_y = terminal_panel.cursor_y
                /\ terminal_panel'.current_style = terminal_panel.current_style
           ELSE /\ terminal_panel.parser.state = "Ground"
                /\ terminal_panel' = PutAt(terminal_panel, 88)]_vars
    /\ [][(chunk_input \in CsiByteScripts /\ Feed /\ ops + 1 = Len(chunk_input)) =>
           /\ terminal_panel.parser.state = "Ground"
           /\ terminal_panel'.lines = PutAt(terminal_panel, 88).lines]_vars

\* "A", a DCS string with a line feed in it and "X" were fed to a panel with
\* three writable columns: "X" stands next to "A" on the first row
C34_Witness ==
    /\ chunk_input = <<<<65>>>> \o Bytes(<<27, 80, 49, 36, 113, 10, 109, 27, 92>>)
                        \o <<<<88>>>>
    /\ FeedDone
    /\ terminal_panel.bounds = Rect(0, 2, 5, 4)
    /\ CellCh(0, 0) = 65 /\ CellCh(0, 1) = 88
    /\ terminal_panel.cursor_x = 2 /\ terminal_panel.cursor_y = 0

\* the terminal events among the events of a channel, in order
RECURSIVE TerminalOf(_)
TerminalOf(events) ==
    IF events = <<>> THEN <<>>
    ELSE IF Head(events) \in TerminalEvents
         THEN <<Head(events)>> \o TerminalOf(Tail(events))
         ELSE TerminalOf(Tail(events))

\* no Data event stands behind a terminal event in the channel
NoDataAfterTerminal(events) ==
    \A i, j \in 1..Len(events) :
        (i < j /\ events[i] \in TerminalEvents) => events[j].type # "Data"

\* C35: a reader thread sends one terminal event, Disconnected after a read
\* of length 0 and Error after a failed read, and nothing after it: it
\* empties the write handle in the step before the one that sends the event,
\* and it takes no step after that one.  A successful read sends one Data
\* event with the bytes read.  The events are seen in the channel while its
\* receiver exists; a session whose connection failed has no reader thread.
C35_ReaderEndsWithOneTerminalEvent ==
    /\ [](\A s \in Sessions :
            (ssh_event_receiver = s /\ reader[s] # "none") =>
                /\ NoDataAfterTerminal(channel)
                /\ TerminalOf(channel) =
                     CASE reader[s] = "done_eof" -> <<[type |-> "Disconnected"]>>
                       [] reader[s] = "done_error" -> <<[type |-> "Error"]>>
                       [] OTHER -> <<>>)
    /\ [][\A s \in Sessions :
            /\ (reader[s] = "reading" /\ reader'[s] # "reading") =>
                 /\ reader'[s] \in {"eof", "error"}
                 /\ GLOBAL_PTY_WRITER' = 0
                 /\ channel' = channel
            /\ pty_reads'[s] # pty_reads[s] =>
                 /\ reader[s] = "reading" /\ reader'[s] = "reading"
                 /\ pty_reads'[s] = Append(pty_reads[s], pty_read(Len(pty_reads[s]) + 1))
                 /\ channel' = Append(channel,
                                      [type |-> "Data",
                                       data |-> pty_read(Len(pty_reads[s]) + 1)])
            /\ reader[s] \in {"eof", "error"} =>
                 \/ reader'[s] = reader[s] /\ (ssh_event_receiver = s => TerminalOf(channel') = <<>>)
                 \/ /\ reader'[s] = (IF reader[s] = "eof" THEN "done_eof" ELSE "done_error")
                    /\ channel' = send(s, [type |-> IF reader[s] = "eof"
                                                    THEN "Disconnected" ELSE "Error"])
            /\ reader[s] \in {"done_eof", "done_error"} =>
                 /\ reader'[s] = reader[s]
                 /\ pty_reads'[s] = pty_reads[s]
                 /\ (ssh_event_receiver' = s /\ channel' # <<>>) =>
                      /\ TerminalOf(channel') = TerminalOf(channel)
                      /\ DataOf(channel') = DataOf(channel)]_vars

\* the reader of session 1 read "a", then its read failed: the Data event and
\* the Error event behind it wait in the channel and the write handle is empty
C35_Witness ==
    /\ ssh_event_receiver = 1
    /\ reader[1] = "done_error"
    /\ pty_reads[1] = <<<<97>>>>
    /\ \E i \in 1..Len(channel) :
         /\ channel[i] = [type |-> "Data", data |-> <<97>>]
         /\ channel[Len(channel)] = [type |-> "Error"]
         /\ i < Len(channel)
    /\ GLOBAL_PTY_WRITER = 0

\* C36: a session starts with an interpreter state of its own: as long as
\* none of its bytes has been fed, the parser that its first bytes will meet
\* is in Ground, outside any UTF-8 sequence, whatever the sessions before it
\* left unfinished.
C36_SessionStartsInGround ==
    \A s \in Sessions :
        (ssh_event_receiver = s /\ pty_fed[s] = <<>>) =>
            /\ terminal_panel.parser.state = "Ground"
            /\ terminal_panel.parser.utf8_point = 0

\* C37: the end of an old session leaves a later session alone: a step of
\* the reader thread of a session that is no longer the newest one (its read
\* returned EOF or an error, or it sends its terminal event) neither empties
\* a write handle stored by a later session nor changes the status of the
\* client.
C37_OldReaderLeavesNewSession ==
    [][\A s \in Sessions :
         (s < nsessions /\ reader[s] # "none" /\ reader'[s] # reader[s]) =>
             /\ GLOBAL_PTY_WRITER > s => GLOBAL_PTY_WRITER' = GLOBAL_PTY_WRITER
             /\ ssh_client' = ssh_client]_vars

\* a session whose reader thread has not sent its terminal event, or whose
\* terminal event waits in the channel
LiveSession ==
    \E s \in Sessions :
        \/ reader[s] \in {"reading", "eof", "error"}
        \/ /\ reader[s] \in {"done_eof", "done_error"}
           /\ ssh_event_receiver = s
           /\ TerminalOf(channel) # <<>>

\* C38: the client is never connecting and connected at once, and when it
\* is connected after handle_ssh_events has drained the channel there is a
\* session whose reader thread has not yet sent its terminal event (or whose
\* terminal event waits in the channel).
C38_ConnectedHasLiveSession ==
    /\ [](~(ssh_client.connected /\ ssh_client.connecting))
    /\ [][HandleSshEvents => (ssh_client'.connected => LiveSession')]_vars

\* C39: once disconnect() has returned for session s, no chunk read by the
\* reader thread of s is passed to write_ssh_data any more.
C39_NoDataAfterDisconnect ==
    [][\A s \in Sessions :
         Disconnected(s) => pty_fed'[s] = pty_fed[s]]_vars

(***************************************************************************)
(* SpecLayout: the frames of a terminal that is resized at will.           *)
(* ui::render calls update_layout with the size of every frame; the sizes  *)
(* are those of up to MaxCols columns and 6..MaxRows rows, and three       *)
(* smaller ones: no column, fewer than 6 rows.  Both build profiles are    *)
(* followed: with overflow checks an underflow is a panic, without them    *)
(* the difference wraps and set_bounds builds the grid of the wrapped      *)
(* size (65535 columns and no row for <<0, 6>>, 65535 and 65530 rows of no *)
(* cell for <<1, 5>> and <<1, 0>>).                                        *)
(***************************************************************************)
MaxCols == 9

MaxRows == 12

SmallSizes == {<<0, 6>>, <<1, 5>>, <<1, 0>>}

LayoutSizes == {<<w, h>> : w \in 1..MaxCols, h \in 6..MaxRows} \cup SmallSizes

LayoutInit ==
    /\ terminal_panel = RawTerminalPanel_new(InitialBounds)
    /\ overflow_checks \in BOOLEAN
    /\ ops = 0
    /\ chunk_input = <<>>
    /\ chunk_split = 0
    /\ AppInit

\* a frame is drawn: ui::render calls update_layout(frame.size())
RenderFrame ==
    /\ main_pc = "loop" /\ Alive
    /\ \E size \in LayoutSizes : update_layout(size)

LayoutNext == RenderFrame

SpecLayout == LayoutInit /\ [][LayoutNext]_vars

\* C40: update_layout computes the bounds without unsigned underflow for
\* every terminal size <<w, h>>: it does not fail, and the panel gets the
\* width w - w div 3 - 1 and the height h - 6, neither below zero nor
\* wrapped around to a huge grid.
C40_LayoutNeverUnderflows ==
    [][LET w == terminal_size'[1]
           h == terminal_size'[2]
       IN /\ terminal_panel'.failed = "none"
          /\ terminal_panel'.bounds = Rect(w \div 3, 2, w - (w \div 3) - 1, h - 6)
          /\ terminal_panel'.bounds.width >= 0
          /\ terminal_panel'.bounds.height >= 0
          /\ Len(terminal_panel'.lines) = h - 6]_vars

====
